---- MODULE Spec2Model ----
(***************************************************************************)
(* State-machine model of the Bitcoin trading assistant's data pipeline:   *)
(*   - useBitcoinData : the bounded candlestick store (historicalData)     *)
(*   - useWebSocket   : the live-feed connection manager                   *)
(*   - MLService      : prediction orchestration and accuracy tracking     *)
(*   - Dashboard      : the triggers of the predictions                    *)
(* Each hook / service is a group of variables; each handler is an action. *)
(***************************************************************************)
EXTENDS Integers, Sequences, FiniteSets, Bags, TLC

VARIABLES
    historicalData,       \* useBitcoinData: CandlestickData[] (React state)
    currentPrice,         \* useBitcoinData: PriceData, or NullObject
    localStorage,         \* the item under DATA_STORAGE_KEY (see Absent, Stored)
    loading,              \* useBitcoinData: loading (React state), TRUE until the mount effects ran
    storeLast,            \* history variable: the last store operation and its input
    candlestickData,      \* useBitcoinData: the candlestick received from useWebSocket, or NullObject
    fetches,              \* number of fetchInitialData calls awaiting their response
    renderPhase,          \* useBitcoinData: what the updates of the process effect have scheduled (see Render)
    connectionStatus,     \* useWebSocket: ConnectionStatus (React state)
    lastMessage,          \* useWebSocket: the last dispatched event object, or NullObject
    error,                \* useWebSocket: error string, or Null
    sockets,              \* bag of the WebSocket objects that can still deliver events
    wsRef,                \* wsRef.current: 1 for a socket (the one marked current), 0 for null
    timers,               \* bag of the pending setTimeout callbacks
    reconnectTimeoutRef,  \* reconnectTimeoutRef.current: 1 for a timer handle, 0 for null
    reconnectAttempts,    \* reconnectAttemptsRef.current
    wsLast,               \* history variable: the last connection operation
    model,                \* MLService.model: the model object, or Null
    isInitialized,        \* MLService.isInitialized
    predictionHistory,    \* MLService.predictionHistory
    mlLast,               \* history variable: the last MLService operation
    modelMetrics,         \* Dashboard: MLModelMetrics | null (React state)
    predictionLoading,    \* Dashboard: predictionLoading (React state)
    currentPrediction,    \* Dashboard: PredictionResult | null (React state)
    predictionError,      \* Dashboard: string | null (React state)
    inferences,           \* number of mlService.generatePrediction calls awaiting their result
    returned,             \* history variable: the last query of the store and what it returned
    inputData,            \* MLService: the data passed to calculateTechnicalIndicators
    indicators,           \* MLService: the TechnicalIndicators[] it returned
    modelInput,           \* MLService.generatePrediction: reshapedInput, the rows given to the model
    reasoning             \* MLService.generatePrediction: the clauses of result.reasoning

storeVars == <<historicalData, currentPrice, localStorage, storeLast, candlestickData, fetches, loading, renderPhase>>

wsVars == <<connectionStatus, lastMessage, error, sockets, wsRef, timers, reconnectTimeoutRef, reconnectAttempts, wsLast>>

mlVars == <<model, isInitialized, predictionHistory, mlLast>>

dashVars == <<modelMetrics, predictionLoading, currentPrediction, predictionError, inferences>>

queryVars == <<returned>>

indVars == <<inputData, indicators, modelInput, reasoning>>

vars == <<historicalData, currentPrice, localStorage, storeLast, candlestickData, fetches, loading, renderPhase, returned, inputData, indicators, modelInput, reasoning, connectionStatus, lastMessage, error, sockets, wsRef, timers, reconnectTimeoutRef, reconnectAttempts, wsLast, model, isInitialized, predictionHistory, mlLast, modelMetrics, predictionLoading, currentPrediction, predictionError, inferences>>

Null == "null"

\* null in a state variable that otherwise holds an object.
NullObject == [null |-> TRUE]

(***************************************************************************)
(* Bounds of the model.                                                    *)
(***************************************************************************)
\* The program keeps 1000 candlesticks (MAX_CANDLESTICKS); the model keeps 2.
MAX_CANDLESTICKS == 2
\* Candlestick timestamps are drawn from 1..MaxTimestamp.
MaxTimestamp == 4

Timestamps == 1..MaxTimestamp
\* Two price levels, so that a replaced candlestick differs from the old one.
Prices == {1, 2}

(***************************************************************************)
(* useBitcoinData: the candlestick store.                                  *)
(***************************************************************************)
\* A CandlestickData value as the feed conversion produces it.
Candle(t, p) == [timestamp |-> t, open |-> p, high |-> p + 1, low |-> p, close |-> p + 1, volume |-> p]

Candles == {Candle(t, p) : t \in Timestamps, p \in Prices}

\* Array.prototype.findIndex on the timestamp: first matching index, -1 if none
\* (indices are 1-based here, 0-based in the program).
findIndex(data, ts) == IF \E i \in 1..Len(data) : data[i].timestamp = ts THEN CHOOSE i \in 1..Len(data) : data[i].timestamp = ts /\ \A j \in 1..(i - 1) : data[j].timestamp # ts ELSE -1

\* Array.prototype.slice(-n): the last n elements (all of them when n >= length).
sliceLast(data, n) == IF n >= Len(data) THEN data ELSE SubSeq(data, Len(data) - n + 1, Len(data))

\* Insertion of x into an ascending sequence after every element that is not
\* greater (keeps the sort stable).
RECURSIVE insertSorted(_, _)
insertSorted(sorted, x) == IF sorted = << >> THEN <<x>> ELSE IF Head(sorted).timestamp <= x.timestamp THEN <<Head(sorted)>> \o insertSorted(Tail(sorted), x) ELSE <<x>> \o sorted

\* Array.prototype.sort((a, b) => a.timestamp - b.timestamp): a stable sort.
RECURSIVE sortByTimestamp(_)
sortByTimestamp(data) == IF data = << >> THEN << >> ELSE insertSorted(sortByTimestamp(SubSeq(data, 1, Len(data) - 1)), data[Len(data)])

\* A slip the sort guards against: the updater returning newData as built.
UpsertUnsorted(prevData, candle) ==
    LET existingIndex == findIndex(prevData, candle.timestamp)
        appended == Append(prevData, candle)
    IN  IF existingIndex # -1
        THEN [prevData EXCEPT ![existingIndex] = candle]
        ELSE IF Len(appended) > MAX_CANDLESTICKS THEN sliceLast(appended, MAX_CANDLESTICKS) ELSE appended

\* A slip in the updater: the candlestick is appended whether or not its
\* timestamp is held.
UpsertAlwaysAppends(prevData, candle) ==
    LET appended == Append(prevData, candle)
    IN  sortByTimestamp(IF Len(appended) > MAX_CANDLESTICKS THEN sliceLast(appended, MAX_CANDLESTICKS) ELSE appended)

\* The updater passed to setHistoricalData: replace by timestamp or append,
\* cut to the last MAX_CANDLESTICKS, then sort.
Upsert(prevData, candle) ==
    LET existingIndex == findIndex(prevData, candle.timestamp)
        appended == Append(prevData, candle)
        newData == IF existingIndex # -1
                   THEN [prevData EXCEPT ![existingIndex] = candle]
                   ELSE IF Len(appended) > MAX_CANDLESTICKS THEN sliceLast(appended, MAX_CANDLESTICKS) ELSE appended
    IN  sortByTimestamp(newData)

\* The 24-hour window of the price-change computation, in ms.
DayMs == 86400000

\* PriceData computed by the process effect (the percentage, a quotient of
\* floats, is not carried).
NewPrice(data, c) ==
    LET twentyFourHoursAgo == c.timestamp - DayMs
        hits == {i \in 1..Len(data) : data[i].timestamp >= twentyFourHoursAgo}
        first == CHOOSE i \in hits : \A j \in hits : i <= j
        price24hAgo == IF hits # {} THEN data[first].open ELSE data[1].open
    IN  [price |-> c.close, price24hChange |-> IF Len(data) > 0 THEN c.close - price24hAgo ELSE 0, lastUpdate |-> c.timestamp]

\* The item under DATA_STORAGE_KEY, by what JSON.parse makes of its text:
\* "absent" (getItem returns null), "invalid" (JSON.parse throws), "object" (a
\* JSON value without a slice method: null, a number, an object) or "array"
\* with its items.
Absent == [kind |-> "absent", items |-> << >>]

\* JSON.stringify(data) as setItem stores it.
Stored(data) == [kind |-> "array", items |-> data]

\* The store effect: JSON.stringify(historicalData) written under the key when
\* the collection is not empty; a throwing setItem is caught and only warned.
StoreEffect(data, stored, writeOk) == IF Len(data) > 0 /\ writeOk THEN Stored(data) ELSE stored

\* History record of a store operation: its name, the candlestick it was
\* given, whether the store was at capacity and held the candlestick's
\* timestamp when it started, and whether its write to localStorage (if any)
\* succeeds.
StoreOp(op, bar, writeOk) == [op |-> op, bar |-> bar, full |-> Len(historicalData) = MAX_CANDLESTICKS, present |-> findIndex(historicalData, bar.timestamp) # -1, writeOk |-> writeOk]

\* A slip the try/catch of the store effect guards against: the failure of
\* the write reaching the update, which is then not applied.
ProcessCandlestickWriteFirst(c, writeOk) ==
    /\ candlestickData' = c
    /\ currentPrice' = IF writeOk THEN NewPrice(historicalData, c) ELSE currentPrice
    /\ historicalData' = IF writeOk THEN Upsert(historicalData, c) ELSE historicalData
    /\ localStorage' = StoreEffect(historicalData', localStorage, writeOk)
    /\ storeLast' = StoreOp("upsert", c, writeOk)
    /\ renderPhase' = "render"
    /\ UNCHANGED <<fetches, loading>>
    /\ UNCHANGED <<wsVars, mlVars, dashVars, queryVars, indVars>>

\* The process effect for one candlestickData value, followed by the store
\* effect its state change triggers.
ProcessCandlestick(c, writeOk) ==
    /\ candlestickData' = c
    /\ currentPrice' = NewPrice(historicalData, c)
    /\ historicalData' = Upsert(historicalData, c)
    /\ localStorage' = StoreEffect(historicalData', localStorage, writeOk)
    /\ storeLast' = StoreOp("upsert", c, writeOk)
    /\ renderPhase' = "render"
    /\ UNCHANGED <<fetches, loading>>
    /\ UNCHANGED <<wsVars, mlVars, dashVars, queryVars, indVars>>

NoCandle == [timestamp |-> 0, open |-> 0, high |-> 0, low |-> 0, close |-> 0, volume |-> 0]

\* At most MaxFetches fetchInitialData calls await their response at once.
MaxFetches == 2
\* A response of the REST API holds at most MaxBackfill klines (500 in the
\* program, half of what the store keeps).
MaxBackfill == 1

\* A kline of the REST response: [openTime, open, high, low, close, volume, ...]
Kline(t) == <<t, 1, 2, 1, 2, 1>>

\* The responses: up to MaxBackfill klines, in ascending order of open time.
Responses == UNION {{[i \in 1..n |-> Kline(f[i])] : f \in {g \in [1..n -> Timestamps] : \A i, j \in 1..n : i < j => g[i] < g[j]}} : n \in 0..MaxBackfill}

\* klines.map(...): the candlesticks of a response.
formattedData(klines) == IF klines = << >> THEN << >> ELSE [i \in 1..Len(klines) |-> [timestamp |-> klines[i][1], open |-> klines[i][2], high |-> klines[i][3], low |-> klines[i][4], close |-> klines[i][5], volume |-> klines[i][6]]]

\* After setHistoricalData(data): the process effect runs again when the
\* length of historicalData changed and a candlestick has been received.
ProcessEffectRuns(data) == Len(data) # Len(historicalData) /\ candlestickData # NullObject

\* After setHistoricalData(data): the init effect runs again when the length
\* changed, and calls fetchInitialData() when connected and the store is empty.
InitEffectFetches(data) == Len(data) # Len(historicalData) /\ connectionStatus.connected /\ Len(data) = 0

\* clearData(), followed by the effects its state change triggers.
ClearData(writeOk) ==
    /\ historicalData' = IF ProcessEffectRuns(<< >>) THEN Upsert(<< >>, candlestickData) ELSE << >>
    /\ currentPrice' = IF ProcessEffectRuns(<< >>) THEN NewPrice(<< >>, candlestickData) ELSE NullObject
    /\ localStorage' = StoreEffect(historicalData', Absent, writeOk)
    /\ IF InitEffectFetches(<< >>)
       THEN fetches < MaxFetches /\ fetches' = fetches + 1
       ELSE UNCHANGED fetches
    /\ storeLast' = StoreOp("clear", NoCandle, writeOk)
    /\ UNCHANGED <<candlestickData, loading, renderPhase>>
    /\ UNCHANGED <<wsVars, mlVars, dashVars, queryVars, indVars>>

\* fetchInitialData() called by the init effect or by the caller: the request
\* is sent when the store is empty.
FetchInitialData ==
    /\ IF Len(historicalData) = 0
       THEN fetches < MaxFetches /\ fetches' = fetches + 1
       ELSE UNCHANGED fetches
    /\ storeLast' = StoreOp("fetch", NoCandle, TRUE)
    /\ UNCHANGED <<historicalData, currentPrice, localStorage, candlestickData, loading, renderPhase>>
    /\ UNCHANGED <<wsVars, mlVars, dashVars, queryVars, indVars>>

\* An awaited fetch settles: with the klines of the response, or, when ~ok,
\* with a failure that is caught and logged. The effects that the state
\* change triggers follow.
FetchSettles(klines, ok, writeOk) ==
    /\ fetches > 0
    /\ IF ok
       THEN LET data == formattedData(klines)
            IN  /\ historicalData' = IF ProcessEffectRuns(data) THEN Upsert(data, candlestickData) ELSE data
                /\ currentPrice' = IF ProcessEffectRuns(data) THEN NewPrice(data, candlestickData) ELSE currentPrice
                /\ localStorage' = StoreEffect(historicalData', localStorage, writeOk)
                /\ fetches' = IF InitEffectFetches(data) THEN fetches ELSE fetches - 1
                /\ storeLast' = StoreOp("backfill", NoCandle, writeOk)
       ELSE /\ fetches' = fetches - 1
            /\ storeLast' = StoreOp("fetchFailed", NoCandle, TRUE)
            /\ UNCHANGED <<historicalData, currentPrice, localStorage>>
    /\ loading' = FALSE
    /\ UNCHANGED <<candlestickData, renderPhase>>
    /\ UNCHANGED <<wsVars, mlVars, dashVars, queryVars, indVars>>

\* An array item that is not a candlestick.
NotACandle == [notACandle |-> TRUE]

\* The items localStorage can hold when the hook mounts: none, text that is
\* not JSON, JSON that is not an array, an array whose items are not
\* candlesticks, and arrays of up to MAX_CANDLESTICKS + 1 candlesticks in
\* ascending order of timestamp.
Snapshots ==
    {Absent, [kind |-> "invalid", items |-> << >>], [kind |-> "object", items |-> << >>], Stored(<<NotACandle>>)}
    \cup UNION {{Stored([i \in 1..n |-> Candle(f[i], q[i])]) : f \in {g \in [1..n -> Timestamps] : \A i, j \in 1..n : i < j => g[i] < g[j]}, q \in [1..n -> Prices]} : n \in 0..(MAX_CANDLESTICKS + 1)}

\* The load effect of the mount, followed by the store effect its state change
\* triggers: the parsed item is cut to its last MAX_CANDLESTICKS elements; no
\* item, a JSON.parse that throws and a value without slice() leave the
\* collection empty. No candlestick has been received and the connection is
\* not open when the mount effects run.
LoadStoredData(writeOk) ==
    /\ loading
    /\ historicalData' = IF localStorage.kind = "array" THEN sliceLast(localStorage.items, MAX_CANDLESTICKS) ELSE historicalData
    /\ loading' = FALSE
    /\ localStorage' = StoreEffect(historicalData', localStorage, writeOk)
    /\ storeLast' = StoreOp("load", NoCandle, writeOk)
    /\ UNCHANGED <<currentPrice, candlestickData, fetches, renderPhase>>
    /\ UNCHANGED <<wsVars, mlVars, dashVars, queryVars, indVars>>

\* The state of the hook before its mount effects run, over the items that
\* localStorage can hold.
InitUnloaded ==
    /\ historicalData = << >>
    /\ currentPrice = NullObject
    /\ localStorage \in Snapshots
    /\ storeLast = [op |-> "none", bar |-> NoCandle, full |-> FALSE, present |-> FALSE, writeOk |-> TRUE]
    /\ candlestickData = NullObject
    /\ fetches = 0
    /\ loading = TRUE
    /\ renderPhase = "idle"

NextLoad == \E writeOk \in BOOLEAN : LoadStoredData(writeOk)

(***************************************************************************)
(* useBitcoinData: the queries of the store.                               *)
(***************************************************************************)
\* getRecentData is asked for 0..MaxCount candlesticks.
MaxCount == 3
\* The length of a minute in timestamp units (60 * 1000 in the program, whose
\* timestamps are milliseconds; the timestamps of the model are 1..MaxTimestamp).
MsPerMinute == 2
\* getTimeframeData is asked for 1..MaxMinutes minutes.
MaxMinutes == 2

\* Array.prototype.slice(start): from max(length + start, 0) when start is
\* negative, from min(start, length) otherwise (0-based), to the end.
Slice(data, start) ==
    LET k == IF start < 0 THEN (IF Len(data) + start > 0 THEN Len(data) + start ELSE 0) ELSE (IF start < Len(data) THEN start ELSE Len(data))
    IN  SubSeq(data, k + 1, Len(data))

\* getRecentData(count): historicalData.slice(-count); -count is 0 for count = 0.
getRecentData(data, count) == Slice(data, -count)

Max2(a, b) == IF a > b THEN a ELSE b

Min2(a, b) == IF a < b THEN a ELSE b

\* The loop of getTimeframeData from element i on, with the candlesticks
\* pushed so far and the candlestick being built (NullObject for null).
RECURSIVE TimeframeLoop(_, _, _, _, _)
TimeframeLoop(data, timeframeMs, i, timeframeData, currentCandle) ==
    IF i > Len(data)
    THEN IF currentCandle # NullObject THEN Append(timeframeData, currentCandle) ELSE timeframeData
    ELSE LET candle == data[i]
             candleTime == (candle.timestamp \div timeframeMs) * timeframeMs
         IN  IF currentCandle = NullObject \/ currentCandle.timestamp # candleTime
             THEN TimeframeLoop(data, timeframeMs, i + 1,
                                IF currentCandle # NullObject THEN Append(timeframeData, currentCandle) ELSE timeframeData,
                                [timestamp |-> candleTime, open |-> candle.open, high |-> candle.high, low |-> candle.low, close |-> candle.close, volume |-> candle.volume])
             ELSE TimeframeLoop(data, timeframeMs, i + 1, timeframeData,
                                [currentCandle EXCEPT !.high = Max2(currentCandle.high, candle.high),
                                                      !.low = Min2(currentCandle.low, candle.low),
                                                      !.close = candle.close,
                                                      !.volume = currentCandle.volume + candle.volume])

\* A slip in the loop: the candlestick being built is not pushed when the
\* input ends.
getTimeframeDataDropsLast(data, minutes) ==
    IF Len(data) = 0 THEN << >>
    ELSE LET all == TimeframeLoop(data, minutes * MsPerMinute, 1, << >>, NullObject)
         IN  SubSeq(all, 1, Len(all) - 1)

\* getTimeframeData(minutes) over historicalData = data.
getTimeframeData(data, minutes) ==
    IF Len(data) = 0 THEN << >>
    ELSE TimeframeLoop(data, minutes * MsPerMinute, 1, << >>, NullObject)

\* A call of getRecentData(count); the collection is only read.
GetRecentData(count) ==
    /\ returned' = [fn |-> "getRecentData", arg |-> count, value |-> getRecentData(historicalData, count)]
    /\ UNCHANGED <<storeVars, wsVars, mlVars, dashVars, indVars>>

\* A call of getTimeframeData(minutes); the candlesticks it builds are new
\* objects, the collection is only read.
GetTimeframeData(minutes) ==
    /\ returned' = [fn |-> "getTimeframeData", arg |-> minutes, value |-> getTimeframeData(historicalData, minutes)]
    /\ UNCHANGED <<storeVars, wsVars, mlVars, dashVars, indVars>>

\* The mount over the items that are serialized arrays of candlesticks, or
\* absent: the collections the store effect writes.
InitLoaded == InitUnloaded /\ \A i \in 1..Len(localStorage.items) : localStorage.items[i] \in Candles

\* The mount, and the queries of the callers.
NextQuery ==
    \/ \E writeOk \in BOOLEAN : LoadStoredData(writeOk)
    \/ \E count \in 0..MaxCount : GetRecentData(count)
    \/ \E minutes \in 1..MaxMinutes : GetTimeframeData(minutes)

\* The state after the mount effects ran with no item in localStorage.
InitStore ==
    /\ historicalData = << >>
    /\ currentPrice = NullObject
    /\ localStorage = Absent
    /\ storeLast = [op |-> "none", bar |-> NoCandle, full |-> FALSE, present |-> FALSE, writeOk |-> TRUE]
    /\ candlestickData = NullObject
    /\ fetches = 0
    /\ loading = FALSE
    /\ renderPhase = "idle"

NextStore == \E c \in Candles, writeOk \in BOOLEAN : ProcessCandlestick(c, writeOk)

\* The render that the updates of the process effect have scheduled.
\* useWebSocket builds candlestickData from lastMessage at every render, as
\* a new object, so the process effect, which depends on it, is scheduled
\* again whenever a message was received.
Render ==
    /\ renderPhase = "render"
    /\ renderPhase' = IF candlestickData # NullObject THEN "effect" ELSE "idle"
    /\ UNCHANGED <<historicalData, currentPrice, localStorage, storeLast, candlestickData, fetches, loading>>
    /\ UNCHANGED <<wsVars, mlVars, dashVars, queryVars, indVars>>

\* The process effect runs again after a render, with the candlestickData
\* of the last message: setCurrentPrice with a new object, setHistoricalData
\* with a new array, which the store effect writes; both schedule a render.
RunProcessEffect(writeOk) ==
    /\ renderPhase = "effect"
    /\ currentPrice' = NewPrice(historicalData, candlestickData)
    /\ historicalData' = Upsert(historicalData, candlestickData)
    /\ localStorage' = StoreEffect(historicalData', localStorage, writeOk)
    /\ storeLast' = StoreOp("rerun", candlestickData, writeOk)
    /\ renderPhase' = "render"
    /\ UNCHANGED <<candlestickData, fetches, loading>>
    /\ UNCHANGED <<wsVars, mlVars, dashVars, queryVars, indVars>>

\* The messages, and the renders and effects that follow them.
NextRender ==
    \/ \E c \in Candles, writeOk \in BOOLEAN : ProcessCandlestick(c, writeOk)
    \/ Render
    \/ \E writeOk \in BOOLEAN : RunProcessEffect(writeOk)

NextData ==
    \/ \E c \in Candles, writeOk \in BOOLEAN : ProcessCandlestick(c, writeOk)
    \/ \E writeOk \in BOOLEAN : ClearData(writeOk)
    \/ FetchInitialData
    \/ \E klines \in Responses, ok \in BOOLEAN, writeOk \in BOOLEAN : FetchSettles(klines, ok, writeOk)

(***************************************************************************)
(* useWebSocket: the connection manager.                                   *)
(***************************************************************************)
maxReconnectAttempts == 5
reconnectDelay == 1000

\* At most MaxSockets WebSocket objects are alive (not yet closed) at once.
MaxSockets == 2
\* At most MaxTimers setTimeout callbacks are pending at once.
MaxTimers == 2

NoError == "none"
ParseError == "Failed to parse incoming data"
SocketError == "WebSocket connection error"
FailedError == "Failed to reconnect after multiple attempts"

One(e) == SetToBag({e})

\* A WebSocket object: its readyState, whether its connection was failed by a
\* close() call made while it was connecting, and whether wsRef.current is
\* this object. Objects are told apart by nothing else, so they form a bag.
Socket(readyState, failing, current) == [readyState |-> readyState, failing |-> failing, current |-> current]

CurrentSockets == {s \in BagToSet(sockets) : s.current}

\* wsRef.current?.readyState ("NONE" when the ref is null).
readyStateOf(ref) == IF ref = 0 \/ CurrentSockets = {} THEN "NONE" ELSE (CHOOSE s \in CurrentSockets : TRUE).readyState

\* The sockets once wsRef.current refers to none of them (after close() was
\* called on the referenced one when closing is TRUE). A closed socket
\* delivers no further event and is dropped when no longer referenced.
Released(closing) ==
    IF CurrentSockets = {} THEN sockets
    ELSE LET c == CHOOSE s \in CurrentSockets : TRUE
             readyState == IF closing /\ c.readyState \in {"CONNECTING", "OPEN"} THEN "CLOSING" ELSE c.readyState
             failing == c.failing \/ (closing /\ c.readyState = "CONNECTING")
         IN  IF readyState = "CLOSED" THEN sockets (-) One(c) ELSE (sockets (-) One(c)) (+) One(Socket(readyState, failing, FALSE))

\* A pending setTimeout callback: "backoff" (scheduled by onclose) or
\* "reconnect" (scheduled by reconnect()), and whether
\* reconnectTimeoutRef.current is its handle.
Timer(kind, held) == [kind |-> kind, held |-> held]

HeldTimers == {t \in BagToSet(timers) : t.held}

\* The pending timers once reconnectTimeoutRef.current is overwritten.
Unheld == IF HeldTimers = {} THEN timers ELSE LET t == CHOOSE h \in HeldTimers : TRUE IN (timers (-) One(t)) (+) One(Timer(t.kind, FALSE))

\* clearTimeout(reconnectTimeoutRef.current): a handle whose callback already
\* ran cancels nothing.
ClearedTimers == IF reconnectTimeoutRef = 0 \/ HeldTimers = {} THEN timers ELSE timers (-) One(CHOOSE h \in HeldTimers : TRUE)

\* connect(): the guard that makes it return at once.
ConnectReturnsEarly(readyState) == readyState = "OPEN"

\* A slip: the exponent taken from the incremented counter itself.
BackoffDelayOffByOne(attempt) == reconnectDelay * 2 ^ attempt

\* reconnectDelay * Math.pow(2, reconnectAttemptsRef.current - 1), read after
\* the increment.
BackoffDelay(attempt) == reconnectDelay * 2 ^ (attempt - 1)

\* onclose: the condition under which a retry is scheduled.
ShouldRetry(code, attempts) == code # 1000 /\ attempts < maxReconnectAttempts

\* The inbound payloads: text that is not JSON, JSON null, a JSON scalar, an
\* event object whose `e` is e, or an envelope object carrying such an event
\* under `data`. The event object has its `kline` object ("full") or lacks it
\* ("missing").
Payloads ==
    {[form |-> f, e |-> "none", kline |-> "none"] : f \in {"invalid", "null", "scalar"}}
    \cup {[form |-> f, e |-> e, kline |-> k] : f \in {"event", "envelope"}, e \in {"kline", "trade"}, k \in {"full", "missing"}}

NoPayload == [form |-> "none", e |-> "none", kline |-> "none"]

\* onmessage: JSON.parse throws on "invalid"; reading data.e throws on null.
HandlerThrows(p) == p.form \in {"invalid", "null"}

EventOf(p) == [e |-> p.e, kline |-> p.kline]

\* The conversion of lastMessage to candlestickData made at each render:
\* null for null, a candlestick ("bar", its values are not carried) for an
\* object with a kline, and a TypeError thrown by the render for an object
\* without one (lastMessage.kline.endTime).
toCandlestickData(message) == IF message = NullObject THEN "null" ELSE IF message.kline = "full" THEN "bar" ELSE "TypeError"

\* onmessage: the state of lastMessage after the format dispatch.
LastMessageAfter(p, prev) ==
    IF HandlerThrows(p) THEN prev
    ELSE IF p.form = "event" /\ p.e = "kline" THEN EventOf(p)
    ELSE IF p.form = "envelope" THEN EventOf(p)
    ELSE prev

\* A slip: the reset placed inside the kline branch.
AttemptsAfterMessageKlineOnly(p, attempts) == IF ~HandlerThrows(p) /\ p.form = "event" /\ p.e = "kline" /\ attempts > 0 THEN 0 ELSE attempts

\* onmessage: reconnectAttemptsRef.current after the handler.
AttemptsAfterMessage(p, attempts) == IF ~HandlerThrows(p) /\ attempts > 0 THEN 0 ELSE attempts

\* History record of an operation: its name, its argument, whether the
\* attempt counter was positive when it started, the delay of the timeout
\* it scheduled (0 when it scheduled none), and the payload of a message.
WsOp(op, arg, delay) == [op |-> op, arg |-> arg, retrying |-> reconnectAttempts > 0, delay |-> delay, payload |-> NoPayload]

\* The body of connect(), on connectionStatus, sockets and wsRef. (The catch
\* branch is not reachable: the URL is a constant, valid one.)
connect ==
    IF ConnectReturnsEarly(readyStateOf(wsRef))
    THEN UNCHANGED <<connectionStatus, sockets, wsRef>>
    ELSE /\ BagCardinality(Released(FALSE)) < MaxSockets
         /\ connectionStatus' = [connectionStatus EXCEPT !.connected = FALSE, !.reconnecting = reconnectAttempts > 0]
         /\ wsRef' = 1
         /\ sockets' = Released(FALSE) (+) One(Socket("CONNECTING", FALSE, TRUE))

\* connect() called by the mount effect or by the caller.
Connect ==
    /\ connect
    /\ wsLast' = WsOp("connect", "", 0)
    /\ UNCHANGED <<lastMessage, error, timers, reconnectTimeoutRef, reconnectAttempts>>
    /\ UNCHANGED <<storeVars, mlVars, dashVars, queryVars, indVars>>

\* A pending setTimeout callback runs: both kinds call connect(). The handle
\* in reconnectTimeoutRef is not cleared.
TimerFires(t) ==
    /\ BagIn(t, timers)
    /\ timers' = timers (-) One(t)
    /\ connect
    /\ wsLast' = WsOp("timer", t.kind, 0)
    /\ UNCHANGED <<lastMessage, error, reconnectTimeoutRef, reconnectAttempts>>
    /\ UNCHANGED <<storeVars, mlVars, dashVars, queryVars, indVars>>

\* The body of disconnect(), except for the timers. close(1000, ...) fails a
\* connecting socket, starts the closing handshake of an open one and leaves
\* a closing or closed one alone.
disconnect ==
    /\ sockets' = Released(TRUE)
    /\ wsRef' = 0
    /\ reconnectTimeoutRef' = 0
    /\ connectionStatus' = [connected |-> FALSE, reconnecting |-> FALSE, error |-> NoError, lastConnected |-> FALSE]
    /\ lastMessage' = NullObject
    /\ error' = Null
    /\ reconnectAttempts' = 0

\* disconnect() called by the caller or by the unmount cleanup.
Disconnect ==
    /\ disconnect
    /\ timers' = ClearedTimers
    /\ wsLast' = WsOp("disconnect", "", 0)
    /\ UNCHANGED <<storeVars, mlVars, dashVars, queryVars, indVars>>

\* reconnect(): disconnect(), then connect() after one second; the handle of
\* this timeout is not kept.
Reconnect ==
    /\ BagCardinality(ClearedTimers) < MaxTimers
    /\ disconnect
    /\ timers' = ClearedTimers (+) One(Timer("reconnect", FALSE))
    /\ wsLast' = WsOp("reconnect", "", 1000)
    /\ UNCHANGED <<storeVars, mlVars, dashVars, queryVars, indVars>>

\* A slip in onopen: the status updated from the previous one, as the other
\* handlers do, which keeps its reconnecting flag.
OnOpenKeepsReconnecting(s) ==
    /\ BagIn(s, sockets) /\ s.readyState = "CONNECTING"
    /\ sockets' = (sockets (-) One(s)) (+) One(Socket("OPEN", s.failing, s.current))
    /\ connectionStatus' = [connectionStatus EXCEPT !.connected = TRUE, !.error = NoError, !.lastConnected = TRUE]
    /\ error' = Null
    /\ reconnectAttempts' = 0
    /\ wsLast' = WsOp("open", "", 0)
    /\ UNCHANGED <<lastMessage, wsRef, timers, reconnectTimeoutRef>>
    /\ UNCHANGED <<storeVars, mlVars, dashVars, queryVars, indVars>>

\* onopen of socket s.
OnOpen(s) ==
    /\ BagIn(s, sockets) /\ s.readyState = "CONNECTING"
    /\ sockets' = (sockets (-) One(s)) (+) One(Socket("OPEN", s.failing, s.current))
    /\ connectionStatus' = [connected |-> TRUE, reconnecting |-> FALSE, error |-> NoError, lastConnected |-> TRUE]
    /\ error' = Null
    /\ reconnectAttempts' = 0
    /\ wsLast' = WsOp("open", "", 0)
    /\ UNCHANGED <<lastMessage, wsRef, timers, reconnectTimeoutRef>>
    /\ UNCHANGED <<storeVars, mlVars, dashVars, queryVars, indVars>>

\* The init effect of useBitcoinData: the condition under which it calls
\* fetchInitialData().
InitEffect(connected, length) == connected /\ length = 0

\* onopen of socket s, followed by the init effect of useBitcoinData, which
\* runs when connectionStatus.connected has changed.
OnOpenInitEffect(s) ==
    /\ BagIn(s, sockets) /\ s.readyState = "CONNECTING"
    /\ sockets' = (sockets (-) One(s)) (+) One(Socket("OPEN", s.failing, s.current))
    /\ connectionStatus' = [connected |-> TRUE, reconnecting |-> FALSE, error |-> NoError, lastConnected |-> TRUE]
    /\ error' = Null
    /\ reconnectAttempts' = 0
    /\ wsLast' = WsOp("open", "", 0)
    /\ IF ~connectionStatus.connected /\ InitEffect(TRUE, Len(historicalData))
       THEN fetches < MaxFetches /\ fetches' = fetches + 1 /\ storeLast' = StoreOp("fetch", NoCandle, TRUE)
       ELSE UNCHANGED <<fetches, storeLast>>
    /\ UNCHANGED <<historicalData, currentPrice, localStorage, candlestickData, loading, renderPhase>>
    /\ UNCHANGED <<lastMessage, wsRef, timers, reconnectTimeoutRef>>
    /\ UNCHANGED <<mlVars, dashVars, queryVars, indVars>>

\* onmessage of socket s with payload p (messages are delivered to open
\* sockets only).
OnMessage(s, p) ==
    /\ BagIn(s, sockets) /\ s.readyState = "OPEN"
    /\ lastMessage' = LastMessageAfter(p, lastMessage)
    /\ reconnectAttempts' = AttemptsAfterMessage(p, reconnectAttempts)
    /\ error' = IF HandlerThrows(p) THEN ParseError ELSE error
    /\ wsLast' = [WsOp("message", IF HandlerThrows(p) THEN "throws" ELSE "handled", 0) EXCEPT !.payload = p]
    /\ UNCHANGED <<connectionStatus, sockets, wsRef, timers, reconnectTimeoutRef>>
    /\ UNCHANGED <<storeVars, mlVars, dashVars, queryVars, indVars>>

\* The ways a socket's connection can end: "normal" (code 1000, clean), "away"
\* (a clean closure with another code), "abnormal" (code 1006, not clean, the
\* error event delivered just before the close event). A socket that never
\* opened, or was closed while connecting, can only end abnormally; a clean
\* closure with another code comes from the server of an open socket.
CloseKinds(s) ==
    IF s.readyState = "CONNECTING" \/ (s.readyState = "CLOSING" /\ s.failing) THEN {"abnormal"}
    ELSE IF s.readyState = "OPEN" THEN {"normal", "away", "abnormal"}
    ELSE IF s.readyState = "CLOSING" THEN {"normal", "abnormal"}
    ELSE {}

CloseCode(kind) == IF kind = "normal" THEN 1000 ELSE IF kind = "away" THEN 1001 ELSE 1006

\* The connection of socket s ends: onerror (for an abnormal end) and then
\* onclose.
OnClose(s, kind) ==
    /\ BagIn(s, sockets) /\ kind \in CloseKinds(s)
    /\ LET wasClean == kind # "abnormal"
           errorAfterOnError == IF wasClean THEN error ELSE SocketError
           retry == ShouldRetry(CloseCode(kind), reconnectAttempts)
       IN  /\ retry => BagCardinality(timers) < MaxTimers
           /\ sockets' = (sockets (-) One(s)) (+) (IF s.current THEN One(Socket("CLOSED", s.failing, TRUE)) ELSE EmptyBag)
           /\ connectionStatus' = [connectionStatus EXCEPT !.connected = FALSE, !.error = IF wasClean THEN NoError ELSE "Connection lost"]
           /\ reconnectAttempts' = IF retry THEN reconnectAttempts + 1 ELSE reconnectAttempts
           /\ timers' = IF retry THEN Unheld (+) One(Timer("backoff", TRUE)) ELSE timers
           /\ reconnectTimeoutRef' = IF retry THEN 1 ELSE reconnectTimeoutRef
           /\ error' = IF ~retry /\ reconnectAttempts >= maxReconnectAttempts THEN FailedError ELSE errorAfterOnError
           /\ wsLast' = WsOp("close", kind, IF retry THEN BackoffDelay(reconnectAttempts') ELSE 0)
    /\ UNCHANGED <<lastMessage, wsRef>>
    /\ UNCHANGED <<storeVars, mlVars, dashVars, queryVars, indVars>>

InitWs ==
    /\ connectionStatus = [connected |-> FALSE, reconnecting |-> FALSE, error |-> NoError, lastConnected |-> FALSE]
    /\ lastMessage = NullObject
    /\ error = Null
    /\ sockets = EmptyBag
    /\ wsRef = 0
    /\ timers = EmptyBag
    /\ reconnectTimeoutRef = 0
    /\ reconnectAttempts = 0
    /\ wsLast = [op |-> "none", arg |-> "", retrying |-> FALSE, delay |-> 0, payload |-> NoPayload]

NextWs ==
    \/ Connect
    \/ Disconnect
    \/ Reconnect
    \/ \E t \in BagToSet(timers) : TimerFires(t)
    \/ \E s \in BagToSet(sockets) : OnOpen(s)
    \/ \E s \in BagToSet(sockets), p \in Payloads : OnMessage(s, p)
    \/ \E s \in BagToSet(sockets), kind \in {"normal", "away", "abnormal"} : OnClose(s, kind)

(***************************************************************************)
(* MLService: prediction orchestration.                                    *)
(***************************************************************************)
sequenceLength == 20

\* The program keeps the last 100 predictions; the model keeps 2.
MaxPredictionHistory == 2
\* generatePrediction is called with 0..MaxDataLength candlesticks.
MaxDataLength == 21

\* The scoring function is a black box: its output (bearishProb, bullishProb)
\* is drawn from these pairs, in percent.
Probabilities == {<<0, 100>>, <<50, 50>>, <<90, 10>>}

Directions == {"bullish", "bearish"}

\* The lengths of the data handed to generatePrediction: none, one short of
\* a window, a window, and more than a window.
DataLengths == {0, sequenceLength - 1} \cup sequenceLength..MaxDataLength

\* The candlesticks handed to generatePrediction: n of them, oldest first.
DataOfLength(n) == [i \in 1..n |-> Candle(i, 1 + (i % 2))]

\* A slip: the length check off by one.
InsufficientDataOffByOne(data) == Len(data) < sequenceLength - 1

\* generatePrediction: the check that throws the insufficient-data error.
InsufficientData(data) == Len(data) < sequenceLength

\* A slip: a tie of the two probabilities read as bullish.
DirectionOfTieBullish(probabilities) == IF probabilities[2] >= probabilities[1] THEN "bullish" ELSE "bearish"

\* direction and confidence from the two probabilities (in percent, so that
\* Math.max(...) * 100 is the greater one).
DirectionOf(probabilities) == IF probabilities[2] > probabilities[1] THEN "bullish" ELSE "bearish"

ConfidenceOf(probabilities) == IF probabilities[2] > probabilities[1] THEN probabilities[2] ELSE probabilities[1]

\* A predictionHistory entry (the timestamps, the model version and the
\* reasoning text are not carried).
HistoryEntry(probabilities) == [direction |-> DirectionOf(probabilities), confidence |-> ConfidenceOf(probabilities), actualResult |-> "undefined", wasCorrect |-> "undefined"]

\* A slip: the cut keeping the first entries instead of the last.
PushPredictionKeepFirst(history, entry) == IF Len(history) + 1 > MaxPredictionHistory THEN SubSeq(Append(history, entry), 1, MaxPredictionHistory) ELSE Append(history, entry)

\* push, then keep only the last MaxPredictionHistory entries.
PushPrediction(history, entry) == IF Len(history) + 1 > MaxPredictionHistory THEN sliceLast(Append(history, entry), MaxPredictionHistory) ELSE Append(history, entry)

\* A slip: wasCorrect set without the comparison.
updatePredictionResultAlwaysCorrect(history, predictionId, actualResult) ==
    IF predictionId >= 0 /\ predictionId < Len(history)
    THEN [history EXCEPT ![predictionId + 1] = [history[predictionId + 1] EXCEPT !.actualResult = actualResult, !.wasCorrect = "true"]]
    ELSE history

\* The body of updatePredictionResult(predictionId, actualResult), on the
\* history; predictionId is 0-based.
updatePredictionResult(history, predictionId, actualResult) ==
    IF predictionId >= 0 /\ predictionId < Len(history)
    THEN LET prediction == history[predictionId + 1]
         IN  [history EXCEPT ![predictionId + 1] = [prediction EXCEPT !.actualResult = actualResult, !.wasCorrect = IF prediction.direction = actualResult THEN "true" ELSE "false"]]
    ELSE history

\* A slip: the entries counted without the filter on actualResult.
getModelMetricsUnfiltered(history) ==
    LET totalPredictions == Len(history)
        correctPredictions == Len(SelectSeq(history, LAMBDA h : h.wasCorrect = "true"))
    IN  [accuracy |-> IF totalPredictions > 0 THEN [numerator |-> correctPredictions * 100, denominator |-> totalPredictions] ELSE [numerator |-> 0, denominator |-> 1], totalPredictions |-> totalPredictions, correctPredictions |-> correctPredictions]

\* getModelMetrics(): the accuracy, a quotient of floats in the program, is
\* carried as the fraction numerator / denominator (lastUpdated and
\* modelVersion are not carried).
getModelMetrics(history) ==
    LET relevantHistory == SelectSeq(history, LAMBDA h : h.actualResult # "undefined")
        totalPredictions == Len(relevantHistory)
        correctPredictions == Len(SelectSeq(relevantHistory, LAMBDA h : h.wasCorrect = "true"))
    IN  [accuracy |-> IF totalPredictions > 0 THEN [numerator |-> correctPredictions * 100, denominator |-> totalPredictions] ELSE [numerator |-> 0, denominator |-> 1], totalPredictions |-> totalPredictions, correctPredictions |-> correctPredictions]

\* History record of an MLService operation: its name, the number of
\* candlesticks it was given, its outcome, the number of rows handed to the
\* scoring function, the scoring output, whether the history was at capacity
\* when the operation started, and the arguments of updatePredictionResult.
MlOp(op) == [op |-> op, length |-> 0, outcome |-> "ok", scoredRows |-> 0, probabilities |-> <<0, 0>>, full |-> FALSE, predictionId |-> -1, actualResult |-> "undefined"]

\* The body of initializeModel(): returns at once when initialized, else
\* builds the model (the library calls that build it are taken to succeed).
initializeModel ==
    IF isInitialized
    THEN UNCHANGED <<model, isInitialized>>
    ELSE model' = "LayersModel" /\ isInitialized' = TRUE

\* initializeModel() called by the dashboard's mount effect.
InitializeModel ==
    /\ initializeModel
    /\ mlLast' = MlOp("initialize")
    /\ UNCHANGED predictionHistory
    /\ UNCHANGED <<storeVars, wsVars, dashVars, queryVars, indVars>>

\* dispose()
Dispose ==
    /\ model' = Null
    /\ isInitialized' = FALSE
    /\ mlLast' = MlOp("dispose")
    /\ UNCHANGED predictionHistory
    /\ UNCHANGED <<storeVars, wsVars, dashVars, queryVars, indVars>>

\* generatePrediction(data) run to completion by a caller that awaits it, with
\* the scoring function answering `probabilities`, or the code inside the try
\* block throwing when `throws`.
GeneratePrediction(data, probabilities, throws) ==
    /\ IF ~isInitialized \/ model = Null THEN initializeModel ELSE UNCHANGED <<model, isInitialized>>
    /\ IF InsufficientData(data)
       THEN /\ mlLast' = [MlOp("predict") EXCEPT !.length = Len(data), !.outcome = "insufficient"]
            /\ UNCHANGED predictionHistory
       ELSE LET recentData == sliceLast(data, sequenceLength)
            IN  IF throws
                THEN /\ mlLast' = [MlOp("predict") EXCEPT !.length = Len(data), !.outcome = "failed", !.scoredRows = Len(recentData)]
                     /\ UNCHANGED predictionHistory
                ELSE /\ predictionHistory' = PushPrediction(predictionHistory, HistoryEntry(probabilities))
                     /\ mlLast' = [MlOp("predict") EXCEPT !.length = Len(data), !.scoredRows = Len(recentData), !.probabilities = probabilities, !.full = Len(predictionHistory) = MaxPredictionHistory]
    /\ UNCHANGED <<storeVars, wsVars, dashVars, queryVars, indVars>>

\* updatePredictionResult(predictionId, actualResult)
UpdatePredictionResult(predictionId, actualResult) ==
    /\ predictionHistory' = updatePredictionResult(predictionHistory, predictionId, actualResult)
    /\ mlLast' = [MlOp("update") EXCEPT !.predictionId = predictionId, !.actualResult = actualResult]
    /\ UNCHANGED <<model, isInitialized>>
    /\ UNCHANGED <<storeVars, wsVars, dashVars, queryVars, indVars>>

\* updateModelMetrics(): getModelMetrics() and setModelMetrics of its result.
UpdateModelMetrics ==
    /\ modelMetrics' = getModelMetrics(predictionHistory)
    /\ mlLast' = MlOp("metrics")
    /\ UNCHANGED <<model, isInitialized, predictionHistory>>
    /\ UNCHANGED <<predictionLoading, currentPrediction, predictionError, inferences>>
    /\ UNCHANGED <<storeVars, wsVars, queryVars, indVars>>

InitMl ==
    /\ model = Null
    /\ isInitialized = FALSE
    /\ predictionHistory = << >>
    /\ mlLast = MlOp("none")

InitDash ==
    /\ modelMetrics = NullObject
    /\ predictionLoading = FALSE
    /\ currentPrediction = NullObject
    /\ predictionError = Null
    /\ inferences = 0

NextMl ==
    \/ InitializeModel
    \/ Dispose
    \/ \E n \in DataLengths, probabilities \in Probabilities, throws \in BOOLEAN : GeneratePrediction(DataOfLength(n), probabilities, throws)
    \/ \E predictionId \in -1..MaxPredictionHistory, actualResult \in Directions : UpdatePredictionResult(predictionId, actualResult)
    \/ UpdateModelMetrics

(***************************************************************************)
(* Dashboard: the triggers of the predictions.                             *)
(***************************************************************************)
\* At most MaxInferences generatePrediction calls await their result at once.
MaxInferences == 2

\* The number of candlesticks below which the dashboard does not predict.
MinPredictionData == 20

\* The synchronous part of Dashboard.generatePrediction with n candlesticks in
\* historicalData, up to the await of mlService.generatePrediction (which
\* builds the model first when there is none).
generatePrediction(n) ==
    IF n < MinPredictionData
    THEN UNCHANGED <<predictionLoading, predictionError, inferences, model, isInitialized>>
    ELSE /\ inferences < MaxInferences
         /\ predictionLoading' = TRUE
         /\ predictionError' = Null
         /\ inferences' = inferences + 1
         /\ IF ~isInitialized \/ model = Null THEN initializeModel ELSE UNCHANGED <<model, isInitialized>>

\* The reactive effect, run because historicalData changed (it now holds n
\* candlesticks).
HistoricalDataChanges(n) ==
    /\ IF n >= MinPredictionData /\ ~predictionLoading
       THEN generatePrediction(n) /\ modelMetrics' = getModelMetrics(predictionHistory)
       ELSE UNCHANGED <<predictionLoading, predictionError, inferences, model, isInitialized, modelMetrics>>
    /\ mlLast' = MlOp("effect")
    /\ UNCHANGED <<predictionHistory, currentPrediction>>
    /\ UNCHANGED <<storeVars, wsVars, queryVars, indVars>>

\* The callback of the 60 s interval.
IntervalTick(n) ==
    /\ IF n >= MinPredictionData /\ connectionStatus.connected
       THEN generatePrediction(n)
       ELSE UNCHANGED <<predictionLoading, predictionError, inferences, model, isInitialized>>
    /\ mlLast' = MlOp("interval")
    /\ UNCHANGED <<predictionHistory, currentPrediction, modelMetrics>>
    /\ UNCHANGED <<storeVars, wsVars, queryVars, indVars>>

\* handleRefreshPrediction: a click on the refresh button, which is disabled
\* while predictionLoading or not connected.
HandleRefreshPrediction(n) ==
    /\ ~predictionLoading /\ connectionStatus.connected
    /\ generatePrediction(n)
    /\ mlLast' = MlOp("refresh")
    /\ UNCHANGED <<predictionHistory, currentPrediction, modelMetrics>>
    /\ UNCHANGED <<storeVars, wsVars, queryVars, indVars>>

\* An awaited mlService.generatePrediction call settles: it recorded a
\* prediction from `probabilities`, or rejected when `throws`. The rest of
\* Dashboard.generatePrediction runs (try, catch, finally), and when
\* predictionLoading thereby changes the reactive effect runs again, with n
\* candlesticks in historicalData.
PredictionSettles(probabilities, throws, n) ==
    /\ inferences > 0
    /\ predictionHistory' = IF throws THEN predictionHistory ELSE PushPrediction(predictionHistory, HistoryEntry(probabilities))
    /\ currentPrediction' = IF throws THEN currentPrediction ELSE [direction |-> DirectionOf(probabilities), confidence |-> ConfidenceOf(probabilities)]
    /\ IF predictionLoading /\ n >= MinPredictionData
       THEN /\ predictionLoading' = TRUE
            /\ predictionError' = Null
            /\ inferences' = inferences
            /\ IF ~isInitialized \/ model = Null THEN initializeModel ELSE UNCHANGED <<model, isInitialized>>
            /\ modelMetrics' = getModelMetrics(predictionHistory')
       ELSE /\ predictionLoading' = FALSE
            /\ predictionError' = IF throws THEN "Failed to generate prediction" ELSE predictionError
            /\ inferences' = inferences - 1
            /\ UNCHANGED <<model, isInitialized, modelMetrics>>
    /\ mlLast' = [MlOp("settle") EXCEPT !.outcome = IF throws THEN "failed" ELSE "ok"]
    /\ UNCHANGED <<storeVars, wsVars, queryVars, indVars>>

NextDash ==
    \/ InitializeModel
    \/ Connect
    \/ \E s \in BagToSet(sockets) : OnOpen(s)
    \/ \E n \in DataLengths : HistoricalDataChanges(n)
    \/ \E n \in DataLengths : IntervalTick(n)
    \/ \E n \in DataLengths : HandleRefreshPrediction(n)
    \/ \E probabilities \in Probabilities, throws \in BOOLEAN, n \in DataLengths : PredictionSettles(probabilities, throws, n)

(***************************************************************************)
(* MLService: the technical indicators.                                    *)
(* The numbers of the program are floats. They are modelled exactly, as    *)
(* fractions in lowest terms, but for the exponential moving average,      *)
(* whose denominators grow with the index and which is carried to          *)
(* 1 / EMAScale, and for the square root of the Bollinger bands, which is  *)
(* carried as its radicand.                                                *)
(***************************************************************************)
\* The indicators are computed over up to MaxBars candlesticks.
MaxBars == 52
\* The exponential moving average is carried in units of 1 / EMAScale.
EMAScale == 1000

\* data[i] of the program, whose indices start at 0.
At(data, i) == data[i + 1]

Abs(x) == IF x < 0 THEN -x ELSE x

RECURSIVE GCD(_, _)
GCD(a, b) == IF b = 0 THEN a ELSE GCD(b, a % b)

\* The sum of f over the integers of S that lie in first..last (by halves
\* of first..last).
RECURSIVE SumWithin(_, _, _, _)
SumWithin(f, S, first, last) ==
    IF first > last THEN 0
    ELSE IF first = last THEN (IF first \in S THEN f[first] ELSE 0)
    ELSE SumWithin(f, S, first, (first + last) \div 2) + SumWithin(f, S, (first + last) \div 2 + 1, last)

\* The sum of f over the set of integers S.
Sum(f, S) == IF S = {} THEN 0 ELSE SumWithin(f, S, CHOOSE x \in S : \A y \in S : x <= y, CHOOSE x \in S : \A y \in S : x >= y)

\* The float Infinity, and the fraction n / d in lowest terms (Infinity for d = 0).
Infinity == [num |-> 1, den |-> 0]

Q(n, d) == IF d = 0 THEN Infinity ELSE LET g == GCD(Abs(n), Abs(d)) IN IF d < 0 THEN [num |-> (-n) \div g, den |-> (-d) \div g] ELSE [num |-> n \div g, den |-> d \div g]

QInt(n) == [num |-> n, den |-> 1]

\* a + b, a - b, a * b and a / b of the floats (x + Infinity = Infinity,
\* x / Infinity = 0).
QAdd(a, b) == IF a.den = 0 \/ b.den = 0 THEN Infinity ELSE LET l == (a.den \div GCD(a.den, b.den)) * b.den IN Q(a.num * (l \div a.den) + b.num * (l \div b.den), l)

QSub(a, b) == QAdd(a, [num |-> -b.num, den |-> b.den])

QMul(a, b) == Q(a.num * b.num, a.den * b.den)

QDiv(a, b) == IF b.den = 0 THEN QInt(0) ELSE Q(a.num * b.den, a.den * b.num)

\* A slip in calculateRSI: a window without losses taken for one without gains.
calculateRSIZeroLossAsZero(data, index, period) ==
    IF index < period THEN QInt(50)
    ELSE LET window == (index - period + 1)..index
             change == [i \in window |-> At(data, i).close - At(data, i - 1).close]
             gains == Sum([i \in window |-> IF change[i] > 0 THEN change[i] ELSE 0], window)
             losses == Sum([i \in window |-> IF change[i] > 0 THEN 0 ELSE -change[i]], window)
             avgGain == Q(gains, period)
             avgLoss == Q(losses, period)
             rs == IF avgLoss = QInt(0) THEN QInt(0) ELSE QDiv(avgGain, avgLoss)
         IN  QSub(QInt(100), QDiv(QInt(100), QAdd(QInt(1), rs)))

\* calculateRSI(data, index, period): 50 below the period, else
\* 100 - 100 / (1 + rs) over the period changes of close that end at index.
calculateRSI(data, index, period) ==
    IF index < period THEN QInt(50)
    ELSE LET window == (index - period + 1)..index
             change == [i \in window |-> At(data, i).close - At(data, i - 1).close]
             gains == Sum([i \in window |-> IF change[i] > 0 THEN change[i] ELSE 0], window)
             losses == Sum([i \in window |-> IF change[i] > 0 THEN 0 ELSE -change[i]], window)
             avgGain == Q(gains, period)
             avgLoss == Q(losses, period)
             rs == IF avgLoss = QInt(0) THEN Infinity ELSE QDiv(avgGain, avgLoss)
         IN  QSub(QInt(100), QDiv(QInt(100), QAdd(QInt(1), rs)))

\* The steps of calculateEMA for the indices first..last, from the value
\* `previous` of index first - 1 (by halves of first..last).
RECURSIVE EMAOver(_, _, _, _, _)
EMAOver(data, previous, first, last, period) ==
    IF first > last THEN previous
    ELSE IF first = last THEN ((At(data, first).close * EMAScale - previous) * 2) \div (period + 1) + previous
    ELSE LET middle == (first + last) \div 2
             half == EMAOver(data, previous, first, middle, period)
         IN  IF half \in Int THEN EMAOver(data, half, middle + 1, last, period) ELSE half

\* calculateEMA(data, index, period) in units of 1 / EMAScale: the close of
\* the first candlestick at index 0, else the previous value moved by
\* 2 / (period + 1) of its distance to the close. (The program evaluates the
\* previous value twice; the value is the same.)
calculateEMA(data, index, period) == EMAOver(data, At(data, 0).close * EMAScale, 1, index, period)

\* A slip in calculateMACD: the guard of the short average for the long one.
calculateMACDShortGuard(data, index) ==
    IF index < 12 THEN [macd |-> QInt(0), signal |-> QInt(0)]
    ELSE LET macd == Q(calculateEMA(data, index, 12) - calculateEMA(data, index, 26), EMAScale)
         IN  [macd |-> macd, signal |-> QMul(macd, Q(9, 10))]

\* calculateMACD(data, index): zeros below index 26, else ema12 - ema26 and
\* 0.9 times it.
calculateMACD(data, index) ==
    IF index < 26 THEN [macd |-> QInt(0), signal |-> QInt(0)]
    ELSE LET macd == Q(calculateEMA(data, index, 12) - calculateEMA(data, index, 26), EMAScale)
         IN  [macd |-> macd, signal |-> QMul(macd, Q(9, 10))]

\* The float mean + sign * 2 * Math.sqrt(radicand).
Band(mean, radicand, sign) == [mean |-> mean, radicand |-> radicand, sign |-> IF radicand = QInt(0) THEN 0 ELSE sign]

\* calculateBollingerBands(data, index, period): the close below the period,
\* else the mean of the last period closes plus and minus twice their
\* standard deviation.
calculateBollingerBands(data, index, period) ==
    IF index < period
    THEN [upper |-> Band(QInt(At(data, index).close), QInt(0), 1), lower |-> Band(QInt(At(data, index).close), QInt(0), -1)]
    ELSE LET window == (index - period + 1)..index
             sum == Sum([i \in window |-> At(data, i).close], window)
             sma == Q(sum, period)
             square == [i \in window |-> QMul(QSub(QInt(At(data, i).close), sma), QSub(QInt(At(data, i).close), sma))]
             variance == Q(Sum([i \in window |-> square[i].num * ((period * period) \div square[i].den)], window), period * period)
         IN  [upper |-> Band(sma, QDiv(variance, QInt(period)), 1), lower |-> Band(sma, QDiv(variance, QInt(period)), -1)]

\* A slip in calculateSMA: a window centred on the index.
calculateSMACentred(data, index, period) ==
    IF index < period THEN QInt(At(data, index).close)
    ELSE LET shift == IF index + 1 < Len(data) THEN 1 ELSE 0
             window == (index - period + 1 + shift)..(index + shift)
         IN  Q(Sum([i \in window |-> At(data, i).close], window), period)

\* calculateSMA(data, index, period): the close below the period, else the
\* mean of the last period closes.
calculateSMA(data, index, period) ==
    IF index < period THEN QInt(At(data, index).close)
    ELSE LET window == (index - period + 1)..index
         IN  Q(Sum([i \in window |-> At(data, i).close], window), period)

\* calculateVolumeSMA(data, index, period): the same over the volumes.
calculateVolumeSMA(data, index, period) ==
    IF index < period THEN QInt(At(data, index).volume)
    ELSE LET window == (index - period + 1)..index
         IN  Q(Sum([i \in window |-> At(data, i).volume], window), period)

\* The element that calculateTechnicalIndicators pushes for index i.
IndicatorsAt(data, i) ==
    LET macdData == calculateMACD(data, i)
        bollingerData == calculateBollingerBands(data, i, 20)
    IN  [rsi |-> calculateRSI(data, i, 14),
         macd |-> macdData.macd,
         macdSignal |-> macdData.signal,
         bollingerUpper |-> bollingerData.upper,
         bollingerLower |-> bollingerData.lower,
         sma20 |-> calculateSMA(data, i, 20),
         sma50 |-> calculateSMA(data, i, 50),
         volumeSMA |-> calculateVolumeSMA(data, i, 20)]

calculateTechnicalIndicators(data) == [k \in 1..Len(data) |-> IndicatorsAt(data, k - 1)]

\* The indices of data that the functions read for index i: the windows of
\* their loops, the index itself for a default that is the close, and every
\* index down to 0 for the recursion of calculateEMA.
RSIReads(index, period) == IF index < period THEN {} ELSE UNION {{i, i - 1} : i \in (index - period + 1)..index}

EMAReads(index) == 0..index

MACDReads(index) == IF index < 26 THEN {} ELSE EMAReads(index)

SMAReads(index, period) == IF index < period THEN {index} ELSE (index - period + 1)..index

IndicesRead(i) == RSIReads(i, 14) \cup MACDReads(i) \cup SMAReads(i, 20) \cup SMAReads(i, 50)

\* The candlesticks given to the indicators: n of them whose closes rise or
\* fall by step from one to the next, the close at bumpAt (if any) raised by
\* 3, one minute apart; every fourth volume is 0.
SeriesClose(i, step, bumpAt) == (IF step < 0 THEN 300 ELSE 100) + step * (i - 1) + (IF i = bumpAt THEN 3 ELSE 0)

Series(n, step, bumpAt) == [i \in 1..n |-> [timestamp |-> i * 60000, open |-> SeriesClose(i, step, bumpAt) - 1, high |-> SeriesClose(i, step, bumpAt) + 1, low |-> SeriesClose(i, step, bumpAt) - 2, close |-> SeriesClose(i, step, bumpAt), volume |-> (i % 4) * 5]]

InputSeries == {Series(n, step, bumpAt) : n \in {1, 14, 15, 16, 20, 21, 26, 27, 28, 50, 51, MaxBars}, step \in {-2, 0, 2}, bumpAt \in {0, 1, 13, 15, 27}}

\* calculateTechnicalIndicators(inputData).
CalculateTechnicalIndicators ==
    /\ indicators' = calculateTechnicalIndicators(inputData)
    /\ UNCHANGED <<inputData, modelInput, reasoning>>
    /\ UNCHANGED <<storeVars, wsVars, mlVars, dashVars, queryVars>>

NextInd == CalculateTechnicalIndicators

(***************************************************************************)
(* MLService: the model input and the reasoning of a prediction.           *)
(***************************************************************************)
featureCount == 13

\* a < b of two fractions.
QLess(a, b) == a.num * b.den < b.num * a.den

\* A float that is a fraction plus multiples of square roots:
\* rational + coef * Math.sqrt(radicand) + ...
Exact(q) == [rational |-> q, roots |-> << >>]

OfBand(band) == [rational |-> band.mean, roots |-> IF band.sign = 0 THEN << >> ELSE <<[coef |-> 2 * band.sign, radicand |-> band.radicand]>>]

Minus(a, b) == [rational |-> QSub(a.rational, b.rational), roots |-> a.roots \o [i \in 1..Len(b.roots) |-> [coef |-> -b.roots[i].coef, radicand |-> b.roots[i].radicand]]]

Plus(a, q) == [rational |-> QAdd(a.rational, q), roots |-> a.roots]

\* The 0.001 added to the two denominators.
Epsilon == Q(1, 1000)

\* A feature: fn(x) / by for fn one of the identity "id", Math.log "log" and
\* the hour of the local time "getHours", and Math.tanh(x / by) for "tanh".
\* The functions are not evaluated.
Feature(fn, x, by) == [fn |-> fn, x |-> x, by |-> by]

\* A slip in the features: the denominators without their 0.001.
FeaturesOfNoEpsilon(candle, indicator) ==
    <<Feature("id", Exact(QInt(candle.open)), Exact(QInt(100000))),
      Feature("id", Exact(QInt(candle.high)), Exact(QInt(100000))),
      Feature("id", Exact(QInt(candle.low)), Exact(QInt(100000))),
      Feature("id", Exact(QInt(candle.close)), Exact(QInt(100000))),
      Feature("log", Exact(QInt(candle.volume + 1)), Exact(QInt(20))),
      Feature("id", Exact(indicator.rsi), Exact(QInt(100))),
      Feature("tanh", Exact(indicator.macd), Exact(QInt(100))),
      Feature("tanh", Exact(indicator.macdSignal), Exact(QInt(100))),
      Feature("id", Minus(Exact(QInt(candle.close)), OfBand(indicator.bollingerLower)), Minus(OfBand(indicator.bollingerUpper), OfBand(indicator.bollingerLower))),
      Feature("id", Exact(indicator.sma20), Exact(QInt(100000))),
      Feature("id", Exact(indicator.sma50), Exact(QInt(100000))),
      Feature("id", Exact(QInt(candle.volume)), Exact(indicator.volumeSMA)),
      Feature("getHours", Exact(QInt(candle.timestamp)), Exact(QInt(24)))>>

\* The values that prepareInferenceData pushes for one candlestick and its
\* indicators, in the order of the push.
FeaturesOf(candle, indicator) ==
    <<Feature("id", Exact(QInt(candle.open)), Exact(QInt(100000))),
      Feature("id", Exact(QInt(candle.high)), Exact(QInt(100000))),
      Feature("id", Exact(QInt(candle.low)), Exact(QInt(100000))),
      Feature("id", Exact(QInt(candle.close)), Exact(QInt(100000))),
      Feature("log", Exact(QInt(candle.volume + 1)), Exact(QInt(20))),
      Feature("id", Exact(indicator.rsi), Exact(QInt(100))),
      Feature("tanh", Exact(indicator.macd), Exact(QInt(100))),
      Feature("tanh", Exact(indicator.macdSignal), Exact(QInt(100))),
      Feature("id", Minus(Exact(QInt(candle.close)), OfBand(indicator.bollingerLower)), Plus(Minus(OfBand(indicator.bollingerUpper), OfBand(indicator.bollingerLower)), Epsilon)),
      Feature("id", Exact(indicator.sma20), Exact(QInt(100000))),
      Feature("id", Exact(indicator.sma50), Exact(QInt(100000))),
      Feature("id", Exact(QInt(candle.volume)), Plus(Exact(indicator.volumeSMA), Epsilon)),
      Feature("getHours", Exact(QInt(candle.timestamp)), Exact(QInt(24)))>>

\* The values pushed into one sequence for the candlesticks of the indices
\* first..last, one candlestick after the other (by halves of first..last);
\* indicators[j] is IndicatorsAt(data, j).
RECURSIVE PushedOver(_, _, _)
PushedOver(data, first, last) ==
    IF first > last THEN << >>
    ELSE IF first = last THEN FeaturesOf(At(data, first), IndicatorsAt(data, first))
    ELSE PushedOver(data, first, (first + last) \div 2) \o PushedOver(data, (first + last) \div 2 + 1, last)

\* prepareInferenceData(data): one sequence for every index i from
\* sequenceLength - 1 on, made of the values of the candlesticks
\* i - sequenceLength + 1 .. i pushed one after the other.
prepareInferenceData(data) == [k \in 1..(Len(data) - sequenceLength + 1) |-> PushedOver(data, k - 1, k + sequenceLength - 2)]

\* inputTensor.slice([0, 0], [1, sequenceLength * featureCount]) reshaped to
\* [1, sequenceLength, featureCount]: the rows of the first sequence.
reshapedInput(inputTensor) ==
    LET lastSequence == SubSeq(inputTensor[1], 1, sequenceLength * featureCount)
    IN  [r \in 1..sequenceLength |-> SubSeq(lastSequence, (r - 1) * featureCount + 1, r * featureCount)]

\* A slip in generatePrediction: the indicators of the reasoning computed
\* over all the candlesticks supplied.
recentDataWhole(data) == data

\* data.slice(-this.sequenceLength)
recentData(data) == sliceLast(data, sequenceLength)

\* generateReasoning(data, direction): the clauses that are joined by ', '.
generateReasoning(data, direction) ==
    LET latest == data[Len(data)]
        previous == data[Len(data) - 1]
        priceChange == QMul(Q(latest.close - previous.close, previous.close), QInt(100))
        latestIndicators == IndicatorsAt(data, Len(data) - 1)
        lower == latestIndicators.bollingerLower
        upper == latestIndicators.bollingerUpper
        below == QLess(QInt(latest.close), lower.mean) /\ QLess(QMul(QInt(4), lower.radicand), QMul(QSub(lower.mean, QInt(latest.close)), QSub(lower.mean, QInt(latest.close))))
        above == QLess(upper.mean, QInt(latest.close)) /\ QLess(QMul(QInt(4), upper.radicand), QMul(QSub(QInt(latest.close), upper.mean), QSub(QInt(latest.close), upper.mean)))
        when(condition, clause) == IF condition THEN <<clause>> ELSE << >>
        reasons == IF direction = "bullish"
                   THEN when(QLess(Q(1, 10), priceChange), "Recent price momentum")
                        \o when(QLess(latestIndicators.rsi, QInt(30)), "Oversold conditions (RSI)")
                        \o when(below, "Below Bollinger Band")
                        \o when(QLess(latestIndicators.macdSignal, latestIndicators.macd), "MACD bullish crossover")
                   ELSE when(QLess(priceChange, Q(-1, 10)), "Recent price decline")
                        \o when(QLess(QInt(70), latestIndicators.rsi), "Overbought conditions (RSI)")
                        \o when(above, "Above Bollinger Band")
                        \o when(QLess(latestIndicators.macd, latestIndicators.macdSignal), "MACD bearish crossover")
    IN  IF Len(reasons) > 0 THEN reasons ELSE <<"Technical analysis pattern">>

\* The part of generatePrediction(inputData) that builds the input of the
\* model and the reasoning, for the direction the scoring gives; with fewer
\* than sequenceLength candlesticks it throws before.
PredictionInputs(direction) ==
    /\ IF InsufficientData(inputData)
       THEN UNCHANGED <<modelInput, reasoning>>
       ELSE /\ modelInput' = reshapedInput(prepareInferenceData(recentData(inputData)))
            /\ reasoning' = generateReasoning(recentData(inputData), direction)
    /\ UNCHANGED <<inputData, indicators>>
    /\ UNCHANGED <<storeVars, wsVars, mlVars, dashVars, queryVars>>

NextFeat == \E direction \in Directions : PredictionInputs(direction)

\* No query of the store and no indicator computation has been made yet.
InitQuery == returned = [fn |-> "none", arg |-> 0, value |-> << >>]

InitInd == inputData = << >> /\ indicators = << >> /\ modelInput = << >> /\ reasoning = << >>

Init == InitStore /\ InitWs /\ InitMl /\ InitDash /\ InitQuery /\ InitInd

\* The connection from the mount on, with the init effect of useBitcoinData
\* and the fetch it starts. (When a connection ends the init effect runs
\* too, with connectionStatus.connected false: it does nothing.) Timeouts
\* fire and awaited responses arrive.
NextFallback ==
    \/ Connect
    \/ \E t \in BagToSet(timers) : TimerFires(t)
    \/ \E s \in BagToSet(sockets) : OnOpenInitEffect(s)
    \/ \E s \in BagToSet(sockets), kind \in {"normal", "away", "abnormal"} : OnClose(s, kind)
    \/ \E klines \in Responses, ok \in BOOLEAN, writeOk \in BOOLEAN : FetchSettles(klines, ok, writeOk)

Next == NextData \/ NextRender \/ NextFallback \/ NextQuery \/ NextWs \/ NextMl \/ NextDash \/ NextInd \/ NextFeat

Spec == Init /\ [][Next]_vars

\* The candlestick store under upserts alone.
SpecStore == Init /\ [][NextStore]_vars

\* The candlestick store under the messages and the renders they cause.
SpecRender == Init /\ [][NextRender]_vars

\* The connection from the mount on, with the init effect and its fetch.
\* A socket that is connecting or closing opens or ends.
SpecFallback ==
    /\ Init /\ [][NextFallback]_vars
    /\ WF_vars(\E s \in BagToSet(sockets) : s.readyState # "OPEN" /\ (OnOpenInitEffect(s) \/ \E kind \in {"normal", "away", "abnormal"} : OnClose(s, kind)))
    /\ WF_vars(\E t \in BagToSet(timers) : TimerFires(t))
    /\ WF_vars(\E klines \in Responses, ok \in BOOLEAN, writeOk \in BOOLEAN : FetchSettles(klines, ok, writeOk))

\* useBitcoinData: upserts, the historical backfill and clearData.
SpecData == Init /\ [][NextData]_vars

\* The candlestick store loaded at the mount, under the queries of its callers.
InitQueries == InitLoaded /\ InitWs /\ InitMl /\ InitDash /\ InitQuery /\ InitInd

SpecQuery == InitQueries /\ [][NextQuery]_vars

\* The mount of useBitcoinData over the items localStorage can hold.
InitLoad == InitUnloaded /\ InitWs /\ InitMl /\ InitDash /\ InitQuery /\ InitInd

SpecLoad == InitLoad /\ [][NextLoad]_vars

\* The indicators of the candlesticks of InputSeries.
InitIndicators == InitStore /\ InitWs /\ InitMl /\ InitDash /\ InitQuery /\ inputData \in InputSeries /\ indicators = << >> /\ modelInput = << >> /\ reasoning = << >>

SpecInd == InitIndicators /\ [][NextInd]_vars

\* The model input and the reasoning for the candlesticks of InputSeries.
SpecFeat == InitIndicators /\ [][NextFeat]_vars

\* The connection manager alone.
SpecWs == Init /\ [][NextWs]_vars

\* The ML service alone.
SpecMl == Init /\ [][NextMl]_vars

\* The dashboard with the service and the connection it waits for: every
\* awaited prediction settles, the interval keeps ticking and candlesticks
\* keep arriving.
SpecDash ==
    /\ Init /\ [][NextDash]_vars
    /\ WF_vars(\E probabilities \in Probabilities, throws \in BOOLEAN, n \in DataLengths : PredictionSettles(probabilities, throws, n))
    /\ WF_vars(\E n \in DataLengths : IntervalTick(n))
    /\ WF_vars(\E n \in DataLengths : HistoricalDataChanges(n))

(***************************************************************************)
(* Claims about the candlestick store.                                     *)
(***************************************************************************)
\* C1: after any sequence of upserts from the empty store, the store holds at
\* most MAX_CANDLESTICKS candlesticks and their timestamps are strictly
\* ascending (hence unique).
C1_StoreBoundedSortedUnique ==
    /\ Len(historicalData) <= MAX_CANDLESTICKS
    /\ \A i, j \in 1..Len(historicalData) : i < j => historicalData[i].timestamp < historicalData[j].timestamp

\* C1 witness: an upsert evicted at capacity and the new candlestick, older
\* than the ones kept, was sorted to the front.
C1_Witness ==
    /\ storeLast.op = "upsert" /\ storeLast.full /\ ~storeLast.present
    /\ Len(historicalData) = MAX_CANDLESTICKS
    /\ historicalData[1] = storeLast.bar

\* C2: an upsert of a new timestamp into a full store leaves exactly the
\* MAX_CANDLESTICKS candlesticks with the greatest timestamps among the
\* previous ones and the new one.
C2_KeepsGreatestTimestamps ==
    [][(/\ storeLast'.op = "upsert"
        /\ Len(historicalData) = MAX_CANDLESTICKS
        /\ findIndex(historicalData, storeLast'.bar.timestamp) = -1)
       => historicalData' = sliceLast(sortByTimestamp(Append(historicalData, storeLast'.bar)), MAX_CANDLESTICKS)]_vars

(***************************************************************************)
(* Claims about the connection manager.                                    *)
(***************************************************************************)
\* The sockets that are open or connecting.
InFlight == [s \in {x \in BagToSet(sockets) : x.readyState \in {"CONNECTING", "OPEN"}} |-> sockets[s]]

BackoffTimers == [t \in {x \in BagToSet(timers) : x.kind = "backoff"} |-> timers[t]]

\* C3: in every reachable state at most one socket is open or connecting.
C3_SingleTransportInFlight == BagCardinality(InFlight) <= 1

\* C4: connect(), called by the caller or by a timer while a socket is open
\* or connecting, creates no socket and leaves the status, the attempt
\* counter and the pending timers (other than the one that ran) unchanged.
C4_ConnectIdempotent ==
    [][(wsLast'.op \in {"connect", "timer"} /\ BagCardinality(InFlight) > 0)
       => /\ sockets' = sockets
          /\ wsRef' = wsRef
          /\ connectionStatus' = connectionStatus
          /\ reconnectAttempts' = reconnectAttempts
          /\ reconnectTimeoutRef' = reconnectTimeoutRef
          /\ BagCardinality(timers') = BagCardinality(timers) - (IF wsLast'.op = "timer" THEN 1 ELSE 0)]_vars

\* C5: after disconnect() no backoff retry timer is pending, the attempt
\* counter is 0 and the status is disconnected.
C5_DisconnectCancelsRetry ==
    wsLast.op = "disconnect"
    => /\ BagCardinality(BackoffTimers) = 0
       /\ reconnectAttempts = 0
       /\ ~connectionStatus.connected /\ ~connectionStatus.reconnecting

\* The documented backoff delays of retries 1..5, in ms.
Delays == <<1000, 2000, 4000, 8000, 16000>>

\* C6: the attempt counter never exceeds 5; a closure with a code other than
\* 1000 that finds the counter at k - 1 < 5 makes it k and schedules exactly
\* one retry, with delay Delays[k]; one that finds it at 5 schedules nothing,
\* leaves the counter at 5 and reports the failure.
C6_BackoffSchedule ==
    /\ [](reconnectAttempts \in 0..5)
    /\ [][(wsLast'.op = "close" /\ wsLast'.arg \in {"away", "abnormal"})
          => IF reconnectAttempts < 5
             THEN /\ reconnectAttempts' = reconnectAttempts + 1
                  /\ wsLast'.delay = Delays[reconnectAttempts']
                  /\ BagCardinality(timers') = BagCardinality(timers) + 1
                  /\ BagCardinality(BackoffTimers') = BagCardinality(BackoffTimers) + 1
                  /\ BagIn(Timer("backoff", TRUE), timers')
             ELSE /\ reconnectAttempts' = 5
                  /\ timers' = timers
                  /\ wsLast'.delay = 0
                  /\ error' = FailedError]_vars

\* C6 witness: the closure after the fifth retry: nothing is scheduled and the
\* failure is reported.
C6_Witness ==
    /\ wsLast.op = "close" /\ wsLast.arg = "abnormal" /\ wsLast.delay = 0
    /\ reconnectAttempts = 5
    /\ error = FailedError
    /\ timers = EmptyBag

\* C7: connect() called in the failed state starts a connection with the
\* attempt counter reset to 0.
C7_ConnectResetsAttempts ==
    [][(wsLast'.op = "connect" /\ error = FailedError /\ reconnectAttempts = maxReconnectAttempts /\ sockets' # sockets)
       => reconnectAttempts' = 0]_vars

\* C8: after a message that the handler processed without throwing, the
\* attempt counter is 0.
C8_MessageResetsAttempts == (wsLast.op = "message" /\ wsLast.arg = "handled") => reconnectAttempts = 0

\* C8 witness: a message handled while the counter was positive.
C8_Witness == wsLast.op = "message" /\ wsLast.arg = "handled" /\ wsLast.retrying /\ reconnectAttempts = 0

\* C9: an abnormal closure of the connected transport, with the attempt count
\* below the maximum, schedules one retry and makes the status reconnecting.
C9_ReconnectingAfterAbnormalClose ==
    [][(wsLast'.op = "close" /\ wsLast'.arg \in {"away", "abnormal"} /\ connectionStatus.connected /\ reconnectAttempts < maxReconnectAttempts)
       => /\ BagCardinality(timers') = BagCardinality(timers) + 1
          /\ connectionStatus'.reconnecting]_vars

(***************************************************************************)
(* Claims about the prediction orchestrator.                               *)
(***************************************************************************)
\* C10: generatePrediction with fewer than 20 candlesticks fails with the
\* insufficient-data error, does not invoke the scoring function and leaves
\* the prediction history unchanged.
C10_InsufficientData ==
    [][(mlLast'.op = "predict" /\ mlLast'.length < 20)
       => /\ mlLast'.outcome = "insufficient"
          /\ mlLast'.scoredRows = 0
          /\ predictionHistory' = predictionHistory]_vars

\* C10 witness: a call with 19 candlesticks failed while the history held a
\* prediction.
C10_Witness == mlLast.op = "predict" /\ mlLast.length = 19 /\ mlLast.outcome = "insufficient" /\ Len(predictionHistory) > 0

\* C11: the prediction history never holds more than MaxPredictionHistory
\* entries; a successful generatePrediction appends exactly one fresh entry at
\* the end, keeps the earlier entries in order and, at capacity, drops the
\* oldest one; a failed generatePrediction leaves the history unchanged.
C11_HistoryBoundedMostRecent ==
    /\ [](Len(predictionHistory) <= MaxPredictionHistory)
    /\ [][mlLast'.op = "predict"
          => IF mlLast'.outcome = "ok"
             THEN LET kept == IF Len(predictionHistory) < MaxPredictionHistory THEN predictionHistory ELSE Tail(predictionHistory)
                      last == predictionHistory'[Len(predictionHistory')]
                  IN  /\ Len(predictionHistory') = Len(kept) + 1
                      /\ \A i \in 1..Len(kept) : predictionHistory'[i] = kept[i]
                      /\ last.actualResult = "undefined" /\ last.wasCorrect = "undefined"
                      /\ last.direction \in Directions
             ELSE predictionHistory' = predictionHistory]_vars

\* C11 witness: a prediction recorded at capacity: the oldest entry was
\* dropped and a reconciled later one moved to the front.
C11_Witness ==
    /\ mlLast.op = "predict" /\ mlLast.outcome = "ok" /\ mlLast.full
    /\ Len(predictionHistory) = MaxPredictionHistory
    /\ predictionHistory[1].actualResult # "undefined"
    /\ predictionHistory[Len(predictionHistory)].actualResult = "undefined"

\* The history without its i-th entry.
WithoutEntry(history, i) == SubSeq(history, 1, i - 1) \o SubSeq(history, i + 1, Len(history))

\* C12: updatePredictionResult(predictionId, actualResult) with an index in
\* range sets the entry's actualResult, sets its wasCorrect to whether the
\* predicted direction equals actualResult and changes nothing else; the
\* metrics then count the entry as reconciled, and as correct exactly when the
\* directions are equal; with an index out of range the history is unchanged.
C12_ReconcileSetsResult ==
    [][mlLast'.op = "update"
       => LET i == mlLast'.predictionId + 1
              actual == mlLast'.actualResult
          IN  IF i \in 1..Len(predictionHistory)
              THEN LET equal == predictionHistory[i].direction = actual
                       others == getModelMetrics(WithoutEntry(predictionHistory', i))
                       metrics == getModelMetrics(predictionHistory')
                   IN  /\ Len(predictionHistory') = Len(predictionHistory)
                       /\ predictionHistory'[i].actualResult = actual
                       /\ predictionHistory'[i].wasCorrect = (IF equal THEN "true" ELSE "false")
                       /\ predictionHistory'[i].direction = predictionHistory[i].direction
                       /\ predictionHistory'[i].confidence = predictionHistory[i].confidence
                       /\ \A j \in 1..Len(predictionHistory) : j # i => predictionHistory'[j] = predictionHistory[j]
                       /\ metrics.totalPredictions = others.totalPredictions + 1
                       /\ metrics.correctPredictions = others.correctPredictions + (IF equal THEN 1 ELSE 0)
              ELSE predictionHistory' = predictionHistory]_vars

\* C12 witness: the second of two predictions was reconciled with the
\* direction opposite to the predicted one.
C12_Witness ==
    /\ mlLast.op = "update" /\ mlLast.predictionId = 1
    /\ Len(predictionHistory) >= 2
    /\ predictionHistory[2].actualResult = mlLast.actualResult
    /\ predictionHistory[2].direction # mlLast.actualResult
    /\ predictionHistory[2].wasCorrect = "false"

\* C13: updatePredictionResult on an entry that is already reconciled leaves
\* the entry unchanged.
C13_ReconciledAtMostOnce ==
    [][(/\ mlLast'.op = "update"
        /\ mlLast'.predictionId + 1 \in 1..Len(predictionHistory)
        /\ predictionHistory[mlLast'.predictionId + 1].actualResult # "undefined")
       => predictionHistory'[mlLast'.predictionId + 1] = predictionHistory[mlLast'.predictionId + 1]]_vars

\* C15: getModelMetrics() leaves the history unchanged and returns the number
\* of reconciled entries, the number of those that are correct, and their
\* quotient times 100 as accuracy (between 0 and 100; 0 when no entry is
\* reconciled).
C15_MetricsOverReconciled ==
    [][mlLast'.op = "metrics"
       => LET reconciled == {i \in 1..Len(predictionHistory) : predictionHistory[i].actualResult # "undefined"}
              correct == {i \in reconciled : predictionHistory[i].wasCorrect = "true"}
              accuracy == modelMetrics'.accuracy
          IN  /\ predictionHistory' = predictionHistory
              /\ modelMetrics'.totalPredictions = Cardinality(reconciled)
              /\ modelMetrics'.correctPredictions = Cardinality(correct)
              /\ accuracy.denominator > 0
              /\ accuracy.numerator * (IF reconciled = {} THEN 1 ELSE Cardinality(reconciled)) = (IF reconciled = {} THEN 0 ELSE Cardinality(correct) * 100) * accuracy.denominator
              /\ 0 <= accuracy.numerator /\ accuracy.numerator <= 100 * accuracy.denominator]_vars

\* C15 witness: metrics taken over a reconciled, correct entry and an
\* unreconciled one.
C15_Witness ==
    /\ mlLast.op = "metrics"
    /\ Len(predictionHistory) = 2
    /\ predictionHistory[1].wasCorrect = "true" /\ predictionHistory[2].actualResult = "undefined"
    /\ modelMetrics = [accuracy |-> [numerator |-> 100, denominator |-> 1], totalPredictions |-> 1, correctPredictions |-> 1]

\* C16: the entry recorded by a successful generatePrediction is bullish
\* exactly when bullishProb > bearishProb, bearish otherwise, and its
\* confidence is the greater of the two probabilities, in percent, within
\* 0..100.
C16_DirectionAndConfidence ==
    (mlLast.op = "predict" /\ mlLast.outcome = "ok")
    => LET bearishProb == mlLast.probabilities[1]
           bullishProb == mlLast.probabilities[2]
           recorded == predictionHistory[Len(predictionHistory)]
       IN  /\ recorded.direction = "bullish" <=> bullishProb > bearishProb
           /\ recorded.direction = "bearish" <=> bullishProb <= bearishProb
           /\ recorded.confidence \in {bearishProb, bullishProb}
           /\ recorded.confidence >= bearishProb /\ recorded.confidence >= bullishProb
           /\ recorded.confidence \in 0..100

\* C16 witness: a tie of the two probabilities was recorded as bearish.
C16_Witness ==
    /\ mlLast.op = "predict" /\ mlLast.outcome = "ok" /\ mlLast.probabilities = <<50, 50>>
    /\ predictionHistory[Len(predictionHistory)].direction = "bearish"
    /\ predictionHistory[Len(predictionHistory)].confidence = 50

\* C14: once a prediction is recorded, the number of reconciled predictions
\* that getModelMetrics reports eventually becomes positive.
C14_EventuallyReconciled == (Len(predictionHistory) > 0) ~> (getModelMetrics(predictionHistory).totalPredictions > 0)

\* C17: at most one mlService.generatePrediction call awaits its result.
C17_SingleInference == inferences <= 1

\* A payload that carries an event of type kline, directly or in an envelope.
CarriesKline(p) == p.form \in {"event", "envelope"} /\ p.e = "kline"

\* A malformed payload: text that is not JSON, or a kline event without its
\* kline object.
Malformed(p) == p.form = "invalid" \/ (CarriesKline(p) /\ p.kline = "missing")

\* C18: a malformed payload leaves lastMessage (hence candlestickData) as it
\* was, sets the error, and leaves the status, the sockets, the timers and
\* the attempt counter unchanged.
C18_MalformedDropped ==
    [][(wsLast'.op = "message" /\ Malformed(wsLast'.payload))
       => /\ lastMessage' = lastMessage
          /\ toCandlestickData(lastMessage') = toCandlestickData(lastMessage)
          /\ error' = ParseError
          /\ connectionStatus' = connectionStatus
          /\ sockets' = sockets /\ wsRef' = wsRef
          /\ timers' = timers /\ reconnectTimeoutRef' = reconnectTimeoutRef
          /\ reconnectAttempts' = reconnectAttempts]_vars

\* C19: a payload that the handler parsed without throwing is dispatched as a
\* candlestick when it carries a well-formed kline event; when it carries no
\* kline event it changes neither lastMessage nor the error.
C19_OnlyKlineForwarded ==
    [][(wsLast'.op = "message" /\ wsLast'.arg = "handled")
       => IF CarriesKline(wsLast'.payload)
          THEN wsLast'.payload.kline = "full" => (lastMessage' = EventOf(wsLast'.payload) /\ toCandlestickData(lastMessage') = "bar")
          ELSE lastMessage' = lastMessage /\ error' = error]_vars

\* C20: after an upsert, a backfill load or a clear whose write succeeded, the
\* item in localStorage is the in-memory collection, and there is no item, or
\* an empty one, when the collection is empty.
C20_SnapshotEqualsStore ==
    (storeLast.op \in {"upsert", "backfill", "clear"} /\ storeLast.writeOk)
    => IF historicalData = << >>
       THEN localStorage \in {Absent, Stored(<< >>)}
       ELSE localStorage = Stored(historicalData)

(***************************************************************************)
(* Claims about persistence failures, startup and clearData.               *)
(***************************************************************************)
\* The candlesticks of a collection, as a set.
BarsOf(data) == {data[i] : i \in 1..Len(data)}

\* The collection an upsert of bar into data is to leave in memory when its
\* write succeeds: the candlesticks of other timestamps (without the first
\* one when the collection was full and did not hold the timestamp) and bar,
\* in strictly ascending order of timestamp.
IsUpsertOutcome(data, bar, result) ==
    LET present == \E i \in 1..Len(data) : data[i].timestamp = bar.timestamp
        evicted == IF ~present /\ Len(data) >= MAX_CANDLESTICKS THEN {data[1]} ELSE {}
    IN  /\ BarsOf(result) = ({b \in BarsOf(data) : b.timestamp # bar.timestamp} \ evicted) \cup {bar}
        /\ \A i, j \in 1..Len(result) : i < j => result[i].timestamp < result[j].timestamp

\* C21: an upsert whose write to localStorage fails leaves in memory what a
\* successful one leaves (the candlestick is stored, the price follows it),
\* the item in localStorage stays as it was, and an upsert after a failed
\* write is applied and persisted as any other.
C21_FailedWriteKeepsMemory ==
    [][storeLast'.op = "upsert"
       => /\ IsUpsertOutcome(historicalData, storeLast'.bar, historicalData')
          /\ currentPrice'.price = storeLast'.bar.close
          /\ IF storeLast'.writeOk
             THEN localStorage' = Stored(historicalData')
             ELSE localStorage' = localStorage]_vars

\* C21 witness: the write of the last upsert failed; its candlestick is in
\* memory while localStorage still holds the collection written before.
C21_Witness ==
    /\ storeLast.op = "upsert" /\ ~storeLast.writeOk
    /\ storeLast.bar \in BarsOf(historicalData)
    /\ localStorage.kind = "array" /\ localStorage # Stored(historicalData)

\* A localStorage item that is a serialized array of candlesticks.
IsBarArray(item) == item.kind = "array" /\ \A i \in 1..Len(item.items) : item.items[i] \in Candles

\* C22: the load at startup leaves in the collection the last
\* MAX_CANDLESTICKS candlesticks of the stored item when that item is a
\* serialized array of candlesticks, and leaves the collection empty
\* otherwise; the collection holds candlesticks only.
C22_LoadsValidSnapshotOnly ==
    [][storeLast'.op = "load"
       => /\ historicalData' = IF IsBarArray(localStorage) THEN sliceLast(localStorage.items, MAX_CANDLESTICKS) ELSE << >>
          /\ BarsOf(historicalData') \subseteq Candles]_vars

\* C23: after clearData() the collection is empty and localStorage holds no
\* item: nothing that was stored or received before the clear comes back
\* because of it.
C23_ClearLeavesNothing ==
    storeLast.op = "clear" => historicalData = << >> /\ localStorage = Absent

(***************************************************************************)
(* Claims about the queries of the store.                                  *)
(***************************************************************************)
\* C25: getRecentData(count) returns the last min(count, length)
\* candlesticks of the collection in their order (none for count = 0) and
\* leaves the collection as it is.
C25_RecentIsLastCount ==
    [][(returned' # returned /\ returned'.fn = "getRecentData")
       => LET n == Min2(returned'.arg, Len(historicalData))
          IN  /\ Len(returned'.value) = n
              /\ \A i \in 1..n : returned'.value[i] = historicalData[Len(historicalData) - n + i]
              /\ historicalData' = historicalData]_vars

\* The start of the bucket of width timeframeMs that holds timestamp ts.
BucketOf(ts, timeframeMs) == CHOOSE b \in 0..ts : b % timeframeMs = 0 /\ b <= ts /\ ts < b + timeframeMs

RECURSIVE SumOver(_, _)
SumOver(f, S) == IF S = {} THEN 0 ELSE LET x == CHOOSE y \in S : TRUE IN f[x] + SumOver(f, S \ {x})

\* C24: for a collection in ascending order of timestamp,
\* getTimeframeData(minutes) returns one candlestick per bucket that holds a
\* timestamp of the collection, in ascending order of bucket; its timestamp
\* is the start of the bucket, its open the open of the first candlestick of
\* the bucket, its close the close of the last, its high and low the maximum
\* high and minimum low, its volume the sum of the volumes; the collection is
\* left as it is.
C24_ResampleAggregatesBuckets ==
    [][(returned' # returned /\ returned'.fn = "getTimeframeData")
       => LET timeframeMs == returned'.arg * MsPerMinute
              out == returned'.value
              bucket == [i \in 1..Len(historicalData) |-> BucketOf(historicalData[i].timestamp, timeframeMs)]
              members(b) == {i \in 1..Len(historicalData) : bucket[i] = b}
              first(b) == CHOOSE i \in members(b) : \A j \in members(b) : i <= j
              last(b) == CHOOSE i \in members(b) : \A j \in members(b) : j <= i
          IN  /\ {out[k].timestamp : k \in 1..Len(out)} = {bucket[i] : i \in 1..Len(historicalData)}
              /\ \A k, l \in 1..Len(out) : k < l => out[k].timestamp < out[l].timestamp
              /\ \A k \in 1..Len(out) :
                    LET b == out[k].timestamp
                    IN  /\ out[k].open = historicalData[first(b)].open
                        /\ out[k].close = historicalData[last(b)].close
                        /\ \A i \in members(b) : out[k].high >= historicalData[i].high /\ out[k].low <= historicalData[i].low
                        /\ \E i \in members(b) : out[k].high = historicalData[i].high
                        /\ \E i \in members(b) : out[k].low = historicalData[i].low
                        /\ out[k].volume = SumOver([i \in 1..Len(historicalData) |-> historicalData[i].volume], members(b))
              /\ historicalData' = historicalData]_vars

\* C24 witness: a query returned a candlestick built from two candlesticks of
\* one bucket that differ in price.
C24_Witness ==
    /\ returned.fn = "getTimeframeData"
    /\ Len(returned.value) < Len(historicalData)
    /\ \E k \in 1..Len(returned.value) : returned.value[k].volume = 3 /\ returned.value[k].high - returned.value[k].low = 2

\* C26: an upsert of a candlestick whose timestamp the collection holds puts
\* the candlestick at the position of the one it replaces and leaves the
\* length and every other candlestick as they were: nothing is evicted.
C26_ReplaceInPlace ==
    [][(storeLast'.op = "upsert" /\ storeLast'.present)
       => LET existingIndex == findIndex(historicalData, storeLast'.bar.timestamp)
          IN  /\ Len(historicalData') = Len(historicalData)
              /\ historicalData'[existingIndex] = storeLast'.bar
              /\ \A i \in 1..Len(historicalData) : i # existingIndex => historicalData'[i] = historicalData[i]]_vars

\* C26 witness: an upsert replaced the first candlestick of a full
\* collection by one of another price.
C26_Witness ==
    /\ storeLast.op = "upsert" /\ storeLast.present /\ storeLast.full
    /\ historicalData[1] = storeLast.bar
    /\ localStorage.kind = "array" /\ Len(localStorage.items) = MAX_CANDLESTICKS /\ localStorage.items[1] # storeLast.bar

(***************************************************************************)
(* Claims about the technical indicators.                                  *)
(***************************************************************************)
\* The indicators of inputData have been computed.
Computed == Len(inputData) > 0 /\ Len(indicators) = Len(inputData)

GainsAt(i) == Sum([k \in (i - 13)..i |-> IF At(inputData, k).close > At(inputData, k - 1).close THEN At(inputData, k).close - At(inputData, k - 1).close ELSE 0], (i - 13)..i)

LossesAt(i) == Sum([k \in (i - 13)..i |-> IF At(inputData, k).close < At(inputData, k - 1).close THEN At(inputData, k - 1).close - At(inputData, k).close ELSE 0], (i - 13)..i)

\* C28: the RSI of every index lies in [0, 100], and at an index of 14 or
\* more it is 100 exactly when the window has no loss and some gain (so not
\* when the closes of the window are all equal).
C28_RSIRangeAndSaturation ==
    Computed => \A i \in 0..(Len(inputData) - 1) :
        LET rsi == indicators[i + 1].rsi
        IN  /\ rsi.den > 0 /\ 0 <= rsi.num /\ rsi.num <= 100 * rsi.den
            /\ i >= 14 => (rsi = QInt(100) <=> (LossesAt(i) = 0 /\ GainsAt(i) > 0))

\* Sequences that agree with data on the indices up to i: data cut after
\* index i, and data with the candlestick after index i, or the last one,
\* changed.
Changed(data, k) == [data EXCEPT ![k].close = data[k].close + 7, ![k].volume = data[k].volume + 7]

AgreeingUpTo(data, i) == {SubSeq(data, 1, i + 1)} \cup {Changed(data, k) : k \in {i + 2, Len(data)} \cap (i + 2)..Len(data)}

\* C29: the indicators of index i (and the two moving averages of the MACD)
\* are those of every sequence that agrees with the data on the indices up
\* to i, and the indices read for i lie in 0..i.
C29_NoLookahead ==
    Computed => \A i \in 0..(Len(inputData) - 1) :
        /\ \A other \in AgreeingUpTo(inputData, i) :
              /\ IndicatorsAt(other, i) = indicators[i + 1]
              /\ calculateEMA(other, i, 12) = calculateEMA(inputData, i, 12)
              /\ calculateEMA(other, i, 26) = calculateEMA(inputData, i, 26)
        /\ IndicesRead(i) \subseteq 0..i

\* C29 witness: the indicators of MaxBars candlesticks are computed, the
\* close of one of which stands out; every indicator has an index with a
\* full window that is not the last one.
C29_Witness ==
    /\ Computed /\ Len(inputData) = MaxBars
    /\ inputData = Series(MaxBars, 2, 27)
    /\ indicators[51].sma50 # QInt(At(inputData, 50).close)

\* C30: below its period every indicator is its default: the RSI 50 for an
\* index below 14, both Bollinger bands the close for an index below 20,
\* the simple moving averages the close (the volume for the one of the
\* volumes) for an index below their period, the MACD and its signal 0 for
\* an index below 26.
C30_DefaultsBelowPeriod ==
    Computed => \A i \in 0..(Len(inputData) - 1) :
        LET close == QInt(At(inputData, i).close)
            row == indicators[i + 1]
        IN  /\ i < 14 => row.rsi = QInt(50)
            /\ i < 20 => /\ row.bollingerUpper.mean = close /\ row.bollingerUpper.radicand = QInt(0)
                          /\ row.bollingerLower.mean = close /\ row.bollingerLower.radicand = QInt(0)
                          /\ row.sma20 = close
                          /\ row.volumeSMA = QInt(At(inputData, i).volume)
            /\ i < 50 => row.sma50 = close
            /\ i < 26 => row.macd = QInt(0) /\ row.macdSignal = QInt(0)

\* C30 witness: the indicators of 26 candlesticks are computed: the last
\* index is below the periods of the MACD and of the 50-candlestick average
\* only.
C30_Witness ==
    /\ Computed /\ Len(inputData) = 26
    /\ indicators[26].macd = QInt(0) /\ indicators[26].sma50 = QInt(At(inputData, 25).close)
    /\ indicators[26].sma20 # QInt(At(inputData, 25).close)
    /\ indicators[26].rsi # QInt(50)

\* The mean of field f over the period candlesticks of inputData that end at index i.
MeanClose(i, period) == Q(Sum([k \in (i - period + 1)..i |-> At(inputData, k).close], (i - period + 1)..i), period)

MeanVolume(i, period) == Q(Sum([k \in (i - period + 1)..i |-> At(inputData, k).volume], (i - period + 1)..i), period)

\* C38: the simple moving average of index i is the close of the
\* candlestick when fewer than period candlesticks end at i (i + 1 < period)
\* and the mean of the closes of the period candlesticks that end at i
\* otherwise (i + 1 >= period); the same for the average of the volumes.
C38_SMAOverFullWindow ==
    Computed => \A i \in 0..(Len(inputData) - 1) :
        /\ indicators[i + 1].sma20 = IF i + 1 < 20 THEN QInt(At(inputData, i).close) ELSE MeanClose(i, 20)
        /\ indicators[i + 1].sma50 = IF i + 1 < 50 THEN QInt(At(inputData, i).close) ELSE MeanClose(i, 50)
        /\ indicators[i + 1].volumeSMA = IF i + 1 < 20 THEN QInt(At(inputData, i).volume) ELSE MeanVolume(i, 20)

\* C39: the flags connected and reconnecting of the connection status are
\* never both true.
C39_OnePhase == ~(connectionStatus.connected /\ connectionStatus.reconnecting)

\* C39 witness: a socket opened while a reconnection was under way: the
\* status is connected and no longer reconnecting.
C39_Witness == wsLast.op = "open" /\ wsLast.retrying /\ connectionStatus.connected /\ ~connectionStatus.reconnecting

(***************************************************************************)
(* Claims about the indices of the prediction history.                     *)
(***************************************************************************)
\* C37: an index of the prediction history keeps referring to the prediction
\* recorded under it for as long as that prediction is in the history: a
\* generatePrediction that evicts the oldest entries leaves every entry it
\* keeps at its index.
C37_IndexKeepsItsPrediction ==
    [][(mlLast'.op = "predict" /\ mlLast'.outcome = "ok")
       => LET evicted == Len(predictionHistory) + 1 - Len(predictionHistory')
          IN  \A i \in (evicted + 1)..Len(predictionHistory) : predictionHistory'[i] = predictionHistory[i]]_vars

(***************************************************************************)
(* Claims about the model input and the reasoning.                         *)
(***************************************************************************)
\* A float of the model that is a positive fraction.
IsPositive(x) == x.roots = << >> /\ x.rational.den > 0 /\ x.rational.num > 0

\* C31: for a window of exactly sequenceLength candlesticks the input of the
\* model has sequenceLength rows of featureCount values, row r made from
\* candlestick r, and every denominator, the two with the 0.001 included, is
\* positive.
C31_ModelInputShape ==
    (Len(inputData) = sequenceLength /\ modelInput # << >>)
    => /\ Len(modelInput) = sequenceLength
       /\ \A r \in 1..Len(modelInput) :
             /\ Len(modelInput[r]) = 13
             /\ modelInput[r][4].x = Exact(QInt(inputData[r].close))
             /\ modelInput[r][13].x = Exact(QInt(inputData[r].timestamp))
             /\ \A n \in 1..Len(modelInput[r]) : IsPositive(modelInput[r][n].by)

\* C31 witness: the input is built from a window of sequenceLength
\* candlesticks, one of them of volume 0.
C31_Witness ==
    /\ Len(inputData) = sequenceLength /\ Len(modelInput) = sequenceLength
    /\ modelInput[4][12].x = Exact(QInt(0)) /\ modelInput[4][12].by = Exact(Epsilon)
    /\ modelInput[4][9].by = Exact(Epsilon)

\* C40: in every prediction the indicators are those of the last
\* sequenceLength candlesticks alone: in every row of the model input MACD
\* and its signal are 0, both Bollinger bands and the two simple moving
\* averages are the close of the row and the average of the volumes is its
\* volume, and the reasoning holds neither a Bollinger nor a MACD clause.
C40_WindowOnlyIndicators ==
    modelInput # << >>
    => /\ \A r \in 1..Len(modelInput) :
             LET row == modelInput[r]
                 close == Exact(row[4].x.rational)
                 volume == row[12].x
             IN  /\ row[7].x = Exact(QInt(0)) /\ row[8].x = Exact(QInt(0))
                 /\ row[9].x = Exact(QInt(0)) /\ row[9].by = Exact(Epsilon)
                 /\ row[10].x = close /\ row[11].x = close
                 /\ row[12].by = Plus(volume, Epsilon)
       /\ \A n \in 1..Len(reasoning) : reasoning[n] \notin {"Below Bollinger Band", "Above Bollinger Band", "MACD bullish crossover", "MACD bearish crossover"}

\* C40 witness: a prediction over MaxBars rising candlesticks, more than
\* every period, whose reasoning is the price momentum alone.
C40_Witness ==
    /\ Len(inputData) = MaxBars /\ inputData = Series(MaxBars, 2, 0)
    /\ modelInput # << >> /\ reasoning = <<"Recent price momentum">>

C36_QuietAfterDisconnect ==
    [][(wsLast.op = "disconnect" /\ wsLast'.op \notin {"connect", "reconnect", "disconnect"})
       => /\ wsRef' = 0
          /\ \A s \in BagToSet(sockets') : s.readyState # "CONNECTING"
          /\ \A t \in BagToSet(timers') : CopiesIn(t, timers') <= CopiesIn(t, timers)
          /\ lastMessage' = NullObject
          /\ ~connectionStatus'.connected /\ ~connectionStatus'.reconnecting
          /\ reconnectAttempts' = 0]_vars

\* C33: the completion of an inference starts no other one: the step in
\* which an awaited prediction settles leaves one inference fewer running.
C33_SettleStartsNoInference ==
    [][(mlLast' # mlLast /\ mlLast'.op = "settle") => (inferences' < inferences /\ ~predictionLoading')]_vars

\* C34: after a message the process effect runs again only when the update
\* before it changed the length of the store (the candlestick was neither
\* in the store nor the store at its capacity); it then runs no more and the
\* store is written no more.
C34_EffectRunsOnlyOnChange ==
    [][(renderPhase = "effect" /\ renderPhase' = "render" /\ storeLast'.op = "rerun") => (~storeLast.present /\ ~storeLast.full)]_vars


\* C32: when the connection has failed for good (the retries are used up)
\* and the store is empty, the historical candlesticks are fetched: a
\* request is made, and its response, if it arrives well, fills the store.
C32_FetchedWhenConnectionFails ==
    (error = FailedError /\ Len(historicalData) = 0) ~> (fetches > 0 \/ storeLast.op \in {"backfill", "fetchFailed"})

====
